---- MODULE Spec2Model ----
(***************************************************************************)
(* tensor-man: the manifest engine of src/core/signing.rs (Manifest,       *)
(* compute_checksum, data_to_sign, create_signature, verify_checksums,     *)
(* verify_signature, sign, verify) over a small file system.               *)
(*                                                                         *)
(* Representation.                                                         *)
(*   byte string / OsStr : sequence of integers 0..255                     *)
(*   String              : sequence of Unicode scalar values; the order of *)
(*                         scalar values is the order of their UTF-8 bytes *)
(*   Path / PathBuf      : sequence of components, each a byte string; all *)
(*                         paths are absolute, the root being <<>>         *)
(*   BTreeMap<String,_>  : function whose domain is the set of keys; the   *)
(*                         iteration order is the ascending key order       *)
(* BLAKE2b-512 and Ed25519 are modelled as ideal primitives (collision     *)
(* free, deterministic, unforgeable) with outputs of the real widths.      *)
(***************************************************************************)
EXTENDS Integers, Sequences, FiniteSets, TLC

\* ------------------------------------------------------------------ bounds
\* longest path list handed to sign / verify
MaxPaths == 3
\* number of file-system changes (write, rename) in one behaviour
MaxEdits == 1
\* number of checksums the signing manifest may hold when compute_checksum is
\* called on it directly
MaxDirect == 1

\* --------------------------------------------------------- program constants
\* BLAKE2b-512 output size in bytes
DigestLen == 64
\* raw Ed25519 public key size in bytes
PublicKeyLen == 32
\* Ed25519 signature size in bytes
SignatureLen == 64
\* U+FFFD REPLACEMENT CHARACTER, produced by to_string_lossy
ReplacementChar == 65533

\* Option<T>: None is the empty sequence, Some(x) the sequence holding x
None == <<>>
Some(x) == <<x>>
\* Err of a path operation: a path no file system holds
NoPath == <<<<-1>>>>
\* Err of hex::decode
HexError == <<-1>>

\* ------------------------------------------------------------ sequences
Min(a, b) == IF a < b THEN a ELSE b

\* the sum of the elements lo..hi of a sequence, and of all of them
RECURSIVE SumRange(_, _, _)
SumRange(s, lo, hi) ==
    IF lo > hi THEN 0
    ELSE IF lo = hi THEN s[lo]
    ELSE SumRange(s, lo, (lo + hi) \div 2) + SumRange(s, ((lo + hi) \div 2) + 1, hi)
SumSeq(s) == SumRange(s, 1, Len(s))

\* byte-wise (scalar-wise) lexicographic order: Ord for [u8], str, String
LexLess(a, b) ==
    \/ \E i \in 1..Min(Len(a), Len(b)) :
          /\ a[i] < b[i]
          /\ \A j \in 1..(i - 1) : a[j] = b[j]
    \/ /\ Len(a) < Len(b)
       /\ \A j \in 1..Len(a) : a[j] = b[j]

\* Ord for Path: lexicographic over the components
PathLess(p, q) ==
    \/ \E i \in 1..Min(Len(p), Len(q)) :
          /\ LexLess(p[i], q[i])
          /\ \A j \in 1..(i - 1) : p[j] = q[j]
    \/ /\ Len(p) < Len(q)
       /\ \A j \in 1..Len(p) : p[j] = q[j]

\* the strict orders in use: Ord for String, Ord for Path, and its reverse
Less(order, a, b) ==
    CASE order = "String" -> LexLess(a, b)
      [] order = "Path" -> PathLess(a, b)
      [] order = "PathDescending" -> PathLess(b, a)

\* slice::sort: a stable sort by the order
StableSort(s, order) ==
    LET n == Len(s)
        rank(i) == Cardinality({j \in 1..n :
                      \/ Less(order, s[j], s[i])
                      \/ (~Less(order, s[i], s[j]) /\ j < i)}) + 1
    IN  [r \in 1..n |-> s[CHOOSE i \in 1..n : rank(i) = r]]

\* the elements of a set as a sequence in ascending order
SetToSortedSeq(S, order) ==
    LET n == Cardinality(S)
        rank(x) == Cardinality({y \in S : Less(order, y, x)}) + 1
    IN  [r \in 1..n |-> CHOOSE x \in S : rank(x) = r]

\* [T].join(sep) for sequences of sequences
RECURSIVE Join(_, _)
Join(ss, sep) ==
    IF ss = <<>> THEN <<>>
    ELSE IF Len(ss) = 1 THEN ss[1]
    ELSE ss[1] \o sep \o Join(Tail(ss), sep)

Range(f) == {f[x] : x \in DOMAIN f}

\* ------------------------------------------------------------- encodings
\* hex::encode: two lower-case hex digits per byte
HexDigit(n) == IF n < 10 THEN 48 + n ELSE 87 + n

HexEncode(bytes) ==
    [i \in 1..(2 * Len(bytes)) |->
        LET b == bytes[(i + 1) \div 2]
        IN  HexDigit(IF i % 2 = 1 THEN b \div 16 ELSE b % 16)]

\* value of one hex digit, -1 when the character is none
HexVal(c) ==
    IF c \in 48..57 THEN c - 48
    ELSE IF c \in 97..102 THEN c - 87
    ELSE IF c \in 65..70 THEN c - 55
    ELSE -1

\* hex::decode: HexError for an odd length or a character that is no digit
HexDecode(str) ==
    IF Len(str) % 2 = 1 \/ \E i \in 1..Len(str) : HexVal(str[i]) = -1
    THEN HexError
    ELSE [i \in 1..(Len(str) \div 2) |->
            16 * HexVal(str[2 * i - 1]) + HexVal(str[2 * i])]

\* OsStr::to_string_lossy over byte strings made of ASCII bytes and of bytes
\* 0xF8..0xFF, which no UTF-8 sequence contains: each such byte becomes U+FFFD
ToStringLossy(bytes) ==
    [i \in 1..Len(bytes) |-> IF bytes[i] < 128 THEN bytes[i] ELSE ReplacementChar]

\* ------------------------------------------------------------- primitives
\* BLAKE2b-512 as an ideal hash: 64 bytes, different inputs give different
\* digests (the first 62 bytes of the input are embedded with its length and
\* a sum of all bytes; no two contents here agree on these)
Blake2b512(input) ==
    [i \in 1..DigestLen |->
        IF i = 1 THEN (151 * Len(input) + 7 * SumSeq(input) + 89) % 256
        ELSE IF i - 1 <= Len(input) THEN input[i - 1]
        ELSE IF i = DigestLen THEN Len(input)
        ELSE (7 * i) % 256]

\* Ed25519 key pairs: the signing keys are 1, 2, ...; the raw public key
KeyPairs == {1, 2}

\* the key pair the signer holds; a verifier may hold the public key of any
SignerKeys == {2}

PublicKeyOf(sk) == [i \in 1..PublicKeyLen |-> (sk * 17 + i * 3) % 256]

\* accumulator over the message positions lo..hi: a position-weighted sum
RECURSIVE Absorb(_, _, _, _)
Absorb(msg, mult, lo, hi) ==
    IF lo > hi THEN 0
    ELSE IF lo = hi THEN ((msg[lo] + 1) * (((lo * mult) % 251) + 1)) % 32749
    ELSE LET mid == (lo + hi) \div 2
         IN  (Absorb(msg, mult, lo, mid) + Absorb(msg, mult, mid + 1, hi)) % 32749

\* Ed25519 signing is deterministic: 64 bytes from the key and the message
Ed25519Sign(sk, msg) ==
    LET a == <<Absorb(msg, 131, 1, Len(msg)), Absorb(msg, 137, 1, Len(msg))>>
    IN  [i \in 1..SignatureLen |->
            IF i = 1 THEN a[1] % 256
            ELSE IF i = 2 THEN a[1] \div 256
            ELSE IF i = 3 THEN a[2] % 256
            ELSE IF i = 4 THEN a[2] \div 256
            ELSE IF i = 5 THEN Len(msg) % 256
            ELSE IF i = 6 THEN Len(msg) \div 256
            ELSE IF i = 7 THEN sk
            ELSE (a[(i % 2) + 1] + i * sk) % 256]

\* UnparsedPublicKey::verify: Ok exactly for the signature the owner of the
\* public key produced over the message
Ed25519Verify(public_key_bytes, msg, signature_bytes) ==
    \E sk \in KeyPairs :
        /\ Len(signature_bytes) = SignatureLen
        /\ PublicKeyOf(sk) = public_key_bytes
        /\ signature_bytes = Ed25519Sign(sk, msg)

\* ------------------------------------------------------------ file system
\* file and directory names (bytes)
NameB == <<98>>
NameO == <<111>>
NameInner == <<105, 110, 110, 101, 114>>
NameM == <<109>>
NameT == <<116>>
NameN == <<110>>
NameZ == <<122>>
NameL == <<108>>
\* two names that are not UTF-8: the single bytes 0xFF and 0xFE
NameFF == <<255>>
NameFE == <<254>>
DotDot == <<46, 46>>
\* the names of model files: a.safetensors, i.safetensors.index.json,
\* q.safetensors.index.json, g.onnx, r; and of the directories w, e, u
NameA == <<97, 46, 115, 97, 102, 101, 116, 101, 110, 115, 111, 114, 115>>
NameI ==
    <<105, 46, 115, 97, 102, 101, 116, 101, 110, 115, 111, 114, 115, 46,
      105, 110, 100, 101, 120, 46, 106, 115, 111, 110>>
NameQ ==
    <<113, 46, 115, 97, 102, 101, 116, 101, 110, 115, 111, 114, 115, 46,
      105, 110, 100, 101, 120, 46, 106, 115, 111, 110>>
NameG == <<103, 46, 111, 110, 110, 120>>
NameJ ==
    <<106, 46, 115, 97, 102, 101, 116, 101, 110, 115, 111, 114, 115, 46,
      105, 110, 100, 101, 120, 46, 106, 115, 111, 110>>
NameC ==
    <<99, 46, 115, 97, 102, 101, 116, 101, 110, 115, 111, 114, 115, 46,
      105, 110, 100, 101, 120, 46, 106, 115, 111, 110>>
NameR == <<114>>
NameW == <<119>>
NameE == <<101>>
NameU == <<117>>
NameS == <<115>>
NameK == <<107>>
\* a directory d of a model and unrelated files: a.safetensors, t.json, r.md;
\* and a hidden file .h
NameD == <<100>>
NameTJson == <<116, 46, 106, 115, 111, 110>>
NameRMd == <<114, 46, 109, 100>>
NameH == <<46, 104>>
\* a directory x that holds nothing
NameX == <<120>>
\* g.signature, the default signature file of g.onnx
NameGSig == <<103, 46, 115, 105, 103, 110, 97, 116, 117, 114, 101>>

\* the directories: /, /b, /b/inner, /o, /w, /e, /u, /d, /x
Dirs == {<<>>, <<NameB>>, <<NameB, NameInner>>, <<NameO>>,
         <<NameW>>, <<NameE>>, <<NameU>>, <<NameD>>, <<NameX>>}

\* the regular files there can be, by canonical path
FileM == <<NameB, NameM>>
FileT == <<NameB, NameInner, NameT>>
FileFF == <<NameB, NameFF>>
FileFE == <<NameB, NameFE>>
FileN == <<NameB, NameN>>
FileZ == <<NameO, NameZ>>
FilePaths == {FileM, FileT, FileFF, FileFE, FileN, FileZ}

\* a symbolic link /b/l -> /o/z
LinkL == <<NameB, NameL>>
SymLinks == (LinkL :> FileZ)

\* file contents: "test", "tost" (one byte altered), the empty file
ContentTest == <<116, 101, 115, 116>>
ContentTost == <<116, 111, 115, 116>>
Contents == {ContentTest, ContentTost, <<>>}

\* the model files, by canonical path: /w holds a model whose documents name
\* files of /w only, /e one whose documents name files outside /e, /u an
\* index that names a shard that does not exist
ModelA == <<NameW, NameA>>
ModelI == <<NameW, NameI>>
ModelG == <<NameW, NameG>>
ModelR == <<NameW, NameR>>
ModelJ == <<NameW, NameJ>>
ModelC == <<NameW, NameC>>
EscapeI == <<NameE, NameI>>
EscapeG == <<NameE, NameG>>
BrokenQ == <<NameU, NameQ>>
\* /d holds one model file and two files of no model format; /b/inner holds
\* a hidden file
DirA == <<NameD, NameA>>
DirT == <<NameD, NameTJson>>
DirR == <<NameD, NameRMd>>
FileH == <<NameB, NameInner, NameH>>
\* /w/g.signature exists before any command, /w/a.signature does not
ModelGSig == <<NameW, NameGSig>>

\* the index documents (JSON text) and the shard names of their weight_map
\*   {"weight_map":{"x":"a.safetensors","y":"a.safetensors"}}
IndexInside ==
    <<123, 34, 119, 101, 105, 103, 104, 116, 95, 109, 97, 112, 34, 58, 123,
      34, 120, 34, 58, 34, 97, 46, 115, 97, 102, 101, 116, 101, 110, 115,
      111, 114, 115, 34, 44, 34, 121, 34, 58, 34, 97, 46, 115, 97, 102,
      101, 116, 101, 110, 115, 111, 114, 115, 34, 125, 125>>
\*   {"weight_map":{"x":"../w/a.safetensors"}}
IndexEscape ==
    <<123, 34, 119, 101, 105, 103, 104, 116, 95, 109, 97, 112, 34, 58, 123,
      34, 120, 34, 58, 34, 46, 46, 47, 119, 47, 97, 46, 115, 97, 102, 101,
      116, 101, 110, 115, 111, 114, 115, 34, 125, 125>>
\*   {"weight_map":{"x":"none.safetensors"}}
IndexMissing ==
    <<123, 34, 119, 101, 105, 103, 104, 116, 95, 109, 97, 112, 34, 58, 123,
      34, 120, 34, 58, 34, 110, 111, 110, 101, 46, 115, 97, 102, 101, 116,
      101, 110, 115, 111, 114, 115, 34, 125, 125>>
\*   {"weight_map":{"x":"/w/a.safetensors","y":"g.onnx","z":"g.onnx"}}
IndexShards ==
    <<123, 34, 119, 101, 105, 103, 104, 116, 95, 109, 97, 112, 34, 58, 123,
      34, 120, 34, 58, 34, 47, 119, 47, 97, 46, 115, 97, 102, 101, 116, 101,
      110, 115, 111, 114, 115, 34, 44, 34, 121, 34, 58, 34, 103, 46, 111,
      110, 110, 120, 34, 44, 34, 122, 34, 58, 34, 103, 46, 111, 110, 110,
      120, 34, 125, 125>>
ShardA == <<97, 46, 115, 97, 102, 101, 116, 101, 110, 115, 111, 114, 115>>
ShardEscape ==
    <<46, 46, 47, 119, 47, 97, 46, 115, 97, 102, 101, 116, 101, 110, 115,
      111, 114, 115>>
ShardMissing ==
    <<110, 111, 110, 101, 46, 115, 97, 102, 101, 116, 101, 110, 115, 111,
      114, 115>>
ShardAbsolute == <<47, 119, 47>> \o ShardA
ShardG == <<103, 46, 111, 110, 110, 120>>
\*   {"weight_map":{"x":"a.safetensors","y":"../w/a.safetensors"}}: one shard
\*   under two names
IndexSpellings ==
    <<123, 34, 119, 101, 105, 103, 104, 116, 95, 109, 97, 112, 34, 58, 123,
      34, 120, 34, 58, 34>> \o ShardA \o <<34, 44, 34, 121, 34, 58, 34>>
    \o ShardEscape \o <<34, 125, 125>>
\* weight_map.values() of each index document
WeightMaps == (IndexInside :> <<ShardA, ShardA>>) @@ (IndexEscape :> <<ShardEscape>>)
                @@ (IndexMissing :> <<ShardMissing>>)
                @@ (IndexShards :> <<ShardAbsolute, ShardG, ShardG>>)
                @@ (IndexSpellings :> <<ShardA, ShardEscape>>)

\* the ONNX documents (protobuf bytes) and the external data they name: a
\* model with ir_version only, and a model whose one initializer has
\* data_location EXTERNAL and the external_data entry location = /o/z
OnnxPlain == <<8, 7>>
OnnxEscape ==
    <<58, 22, 42, 20, 106, 16, 10, 8, 108, 111, 99, 97, 116, 105, 111, 110,
      18, 4, 47, 111, 47, 122, 112, 1>>
ExternalEscape == <<47, 111, 47, 122>>
OnnxModels == (OnnxPlain :> {}) @@ (OnnxEscape :> {ExternalEscape}) @@ (<<>> :> {})

\* the spellings a caller may hand over: canonical paths, /b/inner/../m, /b/l
SpellM == <<NameB, NameInner, DotDot, NameM>>
Spellings == {FileM, FileT, FileFF, FileFE, FileN, SpellM, LinkL}

\* the files that change between signing and verifying: one of the two with
\* content "test" and one with content "tost"; /b/n is the name that is free
EditablePaths == {FileM, FileFF}

\* spellings of the base directory /b
BasePaths == {<<NameB>>, <<NameB, NameInner, DotDot>>}

\* /b/m, /b/inner/t, /b/\xff, /b/\xfe and /o/z exist; /b/n does not
\* and the model files
InitFiles == (FileM :> ContentTest) @@ (FileT :> ContentTest)
                @@ (FileFF :> ContentTost) @@ (FileFE :> ContentTest)
                @@ (FileZ :> ContentTost)
                @@ (ModelA :> ContentTest) @@ (ModelI :> IndexInside)
                @@ (ModelG :> OnnxPlain) @@ (ModelR :> ContentTost)
                @@ (ModelJ :> IndexShards) @@ (ModelC :> IndexSpellings)
                @@ (DirA :> ContentTest) @@ (DirT :> ContentTost)
                @@ (DirR :> <<>>) @@ (FileH :> ContentTost)
                @@ (ModelGSig :> <<>>)
                @@ (EscapeI :> IndexEscape) @@ (EscapeG :> OnnxEscape)
                @@ (BrokenQ :> IndexMissing)

\* relative paths: a path that does not start at the root has Rel as its
\* first component, so <<Rel, n>> is "n", <<Rel, CurDir, n>> is "./n" and
\* <<Rel>> is the empty path ""; Cwd is the current directory of the process
Rel == <<>>
CurDir == <<46>>
Cwd == <<NameW>>

\* Path::canonicalize: resolves ., .. and symbolic links component by
\* component; NoPath stands for Err (a component does not exist or is below a
\* file)
RECURSIVE Resolve(_, _, _)
Resolve(cur, rest, files) ==
    IF cur = NoPath \/ rest = <<>> THEN cur
    ELSE LET c == Head(rest)
             next == Append(cur, c)
         IN  IF cur \in DOMAIN files THEN NoPath
             ELSE IF c = CurDir THEN Resolve(cur, Tail(rest), files)
             ELSE IF c = DotDot
                  THEN Resolve(IF cur = <<>> THEN cur ELSE SubSeq(cur, 1, Len(cur) - 1),
                               Tail(rest), files)
             ELSE IF next \in DOMAIN SymLinks
                  THEN Resolve(Resolve(<<>>, SymLinks[next], files), Tail(rest), files)
             ELSE IF next \in Dirs \/ next \in DOMAIN files
                  THEN Resolve(next, Tail(rest), files)
             ELSE NoPath

\* the empty path is Err; a relative path is resolved from Cwd
Canonicalize(path, files) ==
    IF path = <<Rel>> THEN NoPath
    ELSE IF path # <<>> /\ path[1] = Rel THEN Resolve(Cwd, Tail(path), files)
    ELSE Resolve(<<>>, path, files)

\* Path::strip_prefix: the components after base, NoPath for Err
StripPrefix(path, base) ==
    IF Len(base) <= Len(path) /\ SubSeq(path, 1, Len(base)) = base
    THEN SubSeq(path, Len(base) + 1, Len(path))
    ELSE NoPath

\* the OsStr of a relative path: its components separated by '/'
PathToOsStr(rel) == Join(rel, <<47>>)

\* ---------------------------------------------------------------- Manifest
VARIABLES
    files,        \* the regular files: canonical path -> content
    ref,          \* the signing (reference) manifest, None before it is created
    signResult,   \* outcome of compute_checksum / sign on ref, Pending before
    ver,          \* the verifying manifest, None before it is created
    result,       \* outcome of verify, Pending before verify ran
    signedPaths,  \* the paths of the sign call that just returned, else {}
    edits,        \* file-system changes so far
    cli,          \* the run of the sign command, NoRun before it
    dispatch,     \* the last call of handler_for or of the inspect command
    verifyRun,    \* the run of the verify command, NoRun before it
    signArgs,     \* the arguments of the sign command that ran
    verifyArgs,   \* the arguments of the verify command that ran
    printed,      \* the lines the commands have printed, in order
    resign,       \* the second run of the sign command, NoRun before it
    inspection,   \* the call of Handler::inspect and the Inspection it returned
    sandbox,      \* the run of the docker inspector: its commands and outcome
    tamper        \* the edit made to the signature file after signing, if any

\* the state of the commands other than the run of sign
cmds == <<dispatch, verifyRun, signArgs, verifyArgs, printed, resign, inspection, sandbox>>

vars == <<files, ref, signResult, ver, result, signedPaths, edits, cli, cmds,
          tamper>>

\* the outcome of an operation: Ok, an Err of some kind, or a panic; path is
\* the checksum key an error message of verify_checksums names
Outcome(kind) == [kind |-> kind, path |-> <<>>]
OutcomeAt(kind, path) == [kind |-> kind, path |-> path]
Ok == Outcome("Ok")
Pending == Outcome("Pending")

\* hex BLAKE2b-512 of the raw public key: the fingerprint
Fingerprint(public_key_bytes) == HexEncode(Blake2b512(public_key_bytes))

\* Manifest::from_signing_key; None when base_path does not canonicalize
FromSigningKey(base_path, signing_key) ==
    IF Canonicalize(base_path, files) = NoPath THEN None
    ELSE Some([ public_key    |-> Some(Fingerprint(PublicKeyOf(signing_key))),
                checksums     |-> <<>>,
                signature     |-> <<>>,
                signing_key   |-> Some(signing_key),
                verifying_key |-> None,
                base_path     |-> Canonicalize(base_path, files) ])

\* from_public_key taking the hex of the raw key for the fingerprint
FromPublicKeyRaw(base_path, public_key_bytes) ==
    IF Canonicalize(base_path, files) = NoPath THEN None
    ELSE Some([ public_key    |-> Some(HexEncode(public_key_bytes)),
                checksums     |-> <<>>,
                signature     |-> <<>>,
                signing_key   |-> None,
                verifying_key |-> Some(public_key_bytes),
                base_path     |-> Canonicalize(base_path, files) ])

\* Manifest::from_public_key; None when base_path does not canonicalize
FromPublicKey(base_path, public_key_bytes) ==
    IF Canonicalize(base_path, files) = NoPath THEN None
    ELSE Some([ public_key    |-> Some(Fingerprint(public_key_bytes)),
                checksums     |-> <<>>,
                signature     |-> <<>>,
                signing_key   |-> None,
                verifying_key |-> Some(public_key_bytes),
                base_path     |-> Canonicalize(base_path, files) ])

\* hex BLAKE2b-512 digest of each content
Digests == [c \in Contents \cup Range(InitFiles) |-> HexEncode(Blake2b512(c))]

\* hex digest of a file's content, as compute_checksum streams it
HashFile(canonical) ==
    IF files[canonical] \in DOMAIN Digests THEN Digests[files[canonical]]
    ELSE HexEncode(Blake2b512(files[canonical]))

\* the key compute_checksum stores a canonical path under
ChecksumKey(canonical, base_path) ==
    ToStringLossy(PathToOsStr(StripPrefix(canonical, base_path)))

\* BTreeMap::insert
MapInsert(map, key, value) ==
    [k \in (DOMAIN map) \cup {key} |-> IF k = key THEN value ELSE map[k]]

\* compute_checksum keeping the whole path as the key of a file that is not
\* under the base path, instead of the panic
ComputeChecksumAnywhere(manifest, path) ==
    LET canonical == Canonicalize(path, files)
        relative == StripPrefix(canonical, manifest.base_path)
    IN  IF canonical = NoPath \/ canonical \notin DOMAIN files
        THEN [outcome |-> Outcome("IoError"), manifest |-> manifest]
        ELSE [outcome |-> Ok,
              manifest |-> [manifest EXCEPT !.checksums =
                  MapInsert(@, ToStringLossy(PathToOsStr(
                                   IF relative = NoPath THEN canonical ELSE relative)),
                            HashFile(canonical))]]

\* Manifest::compute_checksum: the outcome and the manifest afterwards
ComputeChecksum(manifest, path) ==
    LET canonical == Canonicalize(path, files)
    IN  IF canonical = NoPath \/ canonical \notin DOMAIN files
        THEN [outcome |-> Outcome("IoError"), manifest |-> manifest]
        ELSE IF StripPrefix(canonical, manifest.base_path) = NoPath
        THEN [outcome |-> Outcome("Panic"), manifest |-> manifest]
        ELSE [outcome |-> Ok,
              manifest |-> [manifest EXCEPT !.checksums =
                  MapInsert(@, ChecksumKey(canonical, manifest.base_path),
                            HashFile(canonical))]]

\* the loop of sign and verify: compute_checksum(path)? for each path in turn
\* (the ? after the call for one path: go on with the rest, or the error)
RECURSIVE ComputeChecksums(_, _)
OrReturn(one, rest) ==
    IF one.outcome = Ok THEN ComputeChecksums(one.manifest, rest) ELSE one

ComputeChecksums(manifest, paths) ==
    IF paths = <<>> THEN [outcome |-> Ok, manifest |-> manifest]
    ELSE OrReturn(ComputeChecksum(manifest, Head(paths)), Tail(paths))

\* BTreeMap::values: the values in ascending key order
MapKeys(map) == SetToSortedSeq(DOMAIN map, "String")
MapValues(map) == [i \in 1..Cardinality(DOMAIN map) |-> map[MapKeys(map)[i]]]

\* data_to_sign without checksums.sort(): the digests in key order
DataToSignKeyOrder(manifest) ==
    Join(MapValues(manifest.checksums), <<46>>)

\* Manifest::data_to_sign: the digests sorted and joined with dots
DataToSign(manifest) ==
    Join(StableSort(MapValues(manifest.checksums), "String"), <<46>>)

\* create_signature signing the digests in key order
CreateSignatureKeyOrder(manifest) ==
    [manifest EXCEPT !.signature =
        HexEncode(Ed25519Sign(manifest.signing_key[1],
                              Join(MapValues(manifest.checksums), <<46>>)))]

\* Manifest::create_signature
CreateSignature(manifest) ==
    [manifest EXCEPT !.signature =
        HexEncode(Ed25519Sign(manifest.signing_key[1], DataToSign(manifest)))]

\* paths.sort()
SortPaths(paths) == StableSort(paths, "Path")

\* Manifest::sign
Sign(manifest, paths) ==
    LET hashed == ComputeChecksums(manifest, SortPaths(paths))
    IN  IF hashed.outcome = Ok
        THEN [outcome |-> Ok, manifest |-> CreateSignature(hashed.manifest)]
        ELSE hashed

\* verify_checksums comparing the digests path by path
VerifyChecksumsByPath(self, checksums) ==
    LET missing == {k \in DOMAIN self.checksums :
                       IF k \in DOMAIN checksums
                       THEN checksums[k] # self.checksums[k] ELSE TRUE}
        invalid == DOMAIN checksums \ DOMAIN self.checksums
    IN  IF missing # {}
        THEN OutcomeAt("MissingChecksum", SetToSortedSeq(missing, "String")[1])
        ELSE IF invalid # {}
        THEN OutcomeAt("InvalidChecksum", SetToSortedSeq(invalid, "String")[1])
        ELSE Ok

\* Manifest::verify_checksums of manifest self against the reference checksums
VerifyChecksums(self, checksums) ==
    LET provided == Range(checksums)
        required == Range(self.checksums)
        missing  == {k \in DOMAIN self.checksums : self.checksums[k] \notin provided}
        invalid  == {k \in DOMAIN checksums : checksums[k] \notin required}
    IN  IF missing # {}
        THEN OutcomeAt("MissingChecksum", SetToSortedSeq(missing, "String")[1])
        ELSE IF invalid # {}
        THEN OutcomeAt("InvalidChecksum", SetToSortedSeq(invalid, "String")[1])
        ELSE Ok

\* verify_signature accepting a manifest that was never signed
VerifySignatureSkipEmpty(self, signature) ==
    LET signature_bytes == HexDecode(signature)
    IN  IF signature_bytes = HexError THEN Outcome("HexError")
        ELSE IF signature = <<>>
                \/ Ed25519Verify(self.verifying_key[1], DataToSign(self), signature_bytes)
        THEN Ok
        ELSE Outcome("SignatureError")

\* Manifest::verify_signature
VerifySignature(self, signature) ==
    LET signature_bytes == HexDecode(signature)
    IN  IF signature_bytes = HexError THEN Outcome("HexError")
        ELSE IF Ed25519Verify(self.verifying_key[1], DataToSign(self), signature_bytes)
        THEN Ok
        ELSE Outcome("SignatureError")

\* verify comparing the checksums before the fingerprints
VerifyChecksumsFirst(self, paths, reference) ==
    LET hashed == ComputeChecksums(self, SortPaths(paths))
        me == hashed.manifest
    IN  IF hashed.outcome # Ok THEN hashed
        ELSE LET checked == VerifyChecksums(me, reference.checksums)
             IN  IF checked # Ok
                 THEN [outcome |-> checked, manifest |-> me]
                 ELSE IF reference.public_key # me.public_key
                 THEN [outcome |-> Outcome("FingerprintMismatch"), manifest |-> me]
                 ELSE [outcome |-> VerifySignature(me, reference.signature),
                       manifest |-> me]

\* verify comparing the fingerprints only when the reference has one
VerifyFingerprintIfSet(self, paths, reference) ==
    LET hashed == ComputeChecksums(self, SortPaths(paths))
        me == hashed.manifest
    IN  IF hashed.outcome # Ok THEN hashed
        ELSE IF reference.public_key # None /\ reference.public_key # me.public_key
        THEN [outcome |-> Outcome("FingerprintMismatch"), manifest |-> me]
        ELSE LET checked == VerifyChecksums(me, reference.checksums)
             IN  IF checked # Ok
                 THEN [outcome |-> checked, manifest |-> me]
                 ELSE [outcome |-> VerifySignature(me, reference.signature),
                       manifest |-> me]

\* verify checking the signature over the checksums of the reference
VerifyReferencePayload(self, paths, reference) ==
    LET hashed == ComputeChecksums(self, SortPaths(paths))
        me == hashed.manifest
    IN  IF hashed.outcome # Ok THEN hashed
        ELSE IF reference.public_key # me.public_key
        THEN [outcome |-> Outcome("FingerprintMismatch"), manifest |-> me]
        ELSE LET checked == VerifyChecksums(me, reference.checksums)
             IN  IF checked # Ok
                 THEN [outcome |-> checked, manifest |-> me]
                 ELSE [outcome |->
                          VerifySignature([me EXCEPT !.checksums = reference.checksums],
                                          reference.signature),
                       manifest |-> me]

\* verify that stops after verify_checksums
VerifyWithoutSignature(self, paths, reference) ==
    LET hashed == ComputeChecksums(self, SortPaths(paths))
        me == hashed.manifest
    IN  IF hashed.outcome # Ok THEN hashed
        ELSE IF reference.public_key # me.public_key
        THEN [outcome |-> Outcome("FingerprintMismatch"), manifest |-> me]
        ELSE [outcome |-> VerifyChecksums(me, reference.checksums),
              manifest |-> me]

\* Manifest::verify of manifest self against the reference manifest
Verify(self, paths, reference) ==
    LET hashed == ComputeChecksums(self, SortPaths(paths))
        me == hashed.manifest
    IN  IF hashed.outcome # Ok THEN hashed
        ELSE IF reference.public_key # me.public_key
        THEN [outcome |-> Outcome("FingerprintMismatch"), manifest |-> me]
        ELSE LET checked == VerifyChecksums(me, reference.checksums)
             IN  IF checked # Ok
                 THEN [outcome |-> checked, manifest |-> me]
                 ELSE [outcome |-> VerifySignature(me, reference.signature),
                       manifest |-> me]

\* ------------------------------------------------------- format handlers
\* str::ends_with, str::contains
EndsWith(s, suffix) ==
    Len(suffix) <= Len(s) /\ SubSeq(s, Len(s) - Len(suffix) + 1, Len(s)) = suffix
Contains(s, sub) ==
    \E i \in 1..(Len(s) - Len(sub) + 1) : SubSeq(s, i, i + Len(sub) - 1) = sub

\* str::to_ascii_lowercase
ToAsciiLowercase(s) == [i \in 1..Len(s) |-> IF s[i] \in 65..90 THEN s[i] + 32 ELSE s[i]]

\* OsStr::to_str().unwrap_or(""): the empty string for a name that is not UTF-8
ToStrOrEmpty(bytes) == IF \A i \in 1..Len(bytes) : bytes[i] < 128 THEN bytes ELSE <<>>

\* Path::file_name().unwrap_or_default(), Path::parent()
FileName(path) == IF path = <<>> THEN <<>> ELSE path[Len(path)]
Parent(path) == SubSeq(path, 1, Len(path) - 1)

\* the position of the last '.' of a file name that separates an extension: 0
\* when there is none or the only one is the first byte
ExtensionDot(name) ==
    LET dots == {i \in 2..Len(name) : name[i] = 46}
    IN  IF dots = {} THEN 0 ELSE CHOOSE i \in dots : \A j \in dots : j <= i

\* Path::extension().unwrap_or_default()
Extension(path) ==
    LET name == FileName(path)
    IN  IF ExtensionDot(name) = 0 THEN <<>>
        ELSE SubSeq(name, ExtensionDot(name) + 1, Len(name))

\* Path::with_extension
WithExtension(path, ext) ==
    LET name == FileName(path)
        stem == IF ExtensionDot(name) = 0 THEN name
                ELSE SubSeq(name, 1, ExtensionDot(name) - 1)
    IN  Append(Parent(path), stem \o <<46>> \o ext)

\* PathBuf::from(string): the components between the '/' of the string
RECURSIVE Components(_, _)
Components(str, cur) ==
    IF str = <<>> THEN (IF cur = <<>> THEN <<>> ELSE <<cur>>)
    ELSE IF Head(str) = 47
         THEN (IF cur = <<>> THEN <<>> ELSE <<cur>>) \o Components(Tail(str), <<>>)
    ELSE Components(Tail(str), Append(cur, Head(str)))

\* a name of a document resolved as the handlers do: base_path.join(p) when p
\* is relative, p itself when it is absolute
JoinIfRelative(base_path, str) ==
    IF str # <<>> /\ str[1] = 47 THEN Components(str, <<>>)
    ELSE base_path \o Components(str, <<>>)

\* the extensions and name patterns of the handlers
ExtSafetensors == <<115, 97, 102, 101, 116, 101, 110, 115, 111, 114, 115>>
IndexSuffix ==
    <<46, 115, 97, 102, 101, 116, 101, 110, 115, 111, 114, 115, 46, 105,
      110, 100, 101, 120, 46, 106, 115, 111, 110>>
ExtOnnx == <<111, 110, 110, 120>>
ExtGguf == <<103, 103, 117, 102>>
ExtPt == <<112, 116>>
ExtPth == <<112, 116, 104>>
PytorchModelBin ==
    <<112, 121, 116, 111, 114, 99, 104, 95, 109, 111, 100, 101, 108, 46,
      98, 105, 110>>
PytorchModel ==
    <<112, 121, 116, 111, 114, 99, 104, 95, 109, 111, 100, 101, 108>>
DotBin == <<46, 98, 105, 110>>

FileTypes == {"Unknown", "SafeTensors", "ONNX", "GGUF", "PyTorch"}
Scopes == {"Inspection", "Signing"}
\* the formats that have a handler
HandlerTypes == FileTypes \ {"Unknown"}

\* safetensors::is_safetensors_index
IsSafetensorsIndex(file_path) ==
    EndsWith(ToStringLossy(FileName(file_path)), IndexSuffix)

\* is_handler_for with a SafeTensors handler that ignores the scope
IsHandlerForAnyScope(handler, file_path, scope) ==
    LET ext  == ToAsciiLowercase(ToStrOrEmpty(Extension(file_path)))
        name == ToAsciiLowercase(ToStrOrEmpty(FileName(file_path)))
    IN  CASE handler = "SafeTensors" ->
                 ext = ExtSafetensors \/ IsSafetensorsIndex(file_path)
          [] handler = "ONNX" -> ext = ExtOnnx
          [] handler = "GGUF" -> ext = ExtGguf
          [] handler = "PyTorch" ->
                 \/ ext = ExtPt
                 \/ ext = ExtPth
                 \/ EndsWith(name, PytorchModelBin)
                 \/ (Contains(name, PytorchModel) /\ EndsWith(name, DotBin))

\* is_handler_for with a PyTorch handler that takes every name holding
\* pytorch_model, whatever its ending
IsHandlerForAnyEnding(handler, file_path, scope) ==
    LET ext  == ToAsciiLowercase(ToStrOrEmpty(Extension(file_path)))
        name == ToAsciiLowercase(ToStrOrEmpty(FileName(file_path)))
    IN  CASE handler = "SafeTensors" ->
                 IF scope = "Inspection" THEN ext = ExtSafetensors
                 ELSE ext = ExtSafetensors \/ IsSafetensorsIndex(file_path)
          [] handler = "ONNX" -> ext = ExtOnnx
          [] handler = "GGUF" -> ext = ExtGguf
          [] handler = "PyTorch" ->
                 \/ ext = ExtPt
                 \/ ext = ExtPth
                 \/ EndsWith(name, PytorchModelBin)
                 \/ Contains(name, PytorchModel)

\* Handler::is_handler_for of the four handlers
IsHandlerFor(handler, file_path, scope) ==
    LET ext  == ToAsciiLowercase(ToStrOrEmpty(Extension(file_path)))
        name == ToAsciiLowercase(ToStrOrEmpty(FileName(file_path)))
    IN  CASE handler = "SafeTensors" ->
                 IF scope = "Inspection" THEN ext = ExtSafetensors
                 ELSE ext = ExtSafetensors \/ IsSafetensorsIndex(file_path)
          [] handler = "ONNX" -> ext = ExtOnnx
          [] handler = "GGUF" -> ext = ExtGguf
          [] handler = "PyTorch" ->
                 \/ ext = ExtPt
                 \/ ext = ExtPth
                 \/ EndsWith(name, PytorchModelBin)
                 \/ (Contains(name, PytorchModel) /\ EndsWith(name, DotBin))

\* handler_for with a handlers vector that lacks the GGUF handler
HandlerForWithoutGguf(format, file_path, scope) ==
    IF format = None
    THEN IF IsHandlerFor("SafeTensors", file_path, scope) THEN Some("SafeTensors")
         ELSE IF IsHandlerFor("ONNX", file_path, scope) THEN Some("ONNX")
         ELSE IF IsHandlerFor("PyTorch", file_path, scope) THEN Some("PyTorch")
         ELSE None
    ELSE IF format[1] \in {"SafeTensors", "ONNX", "PyTorch"} THEN format
    ELSE None

\* handlers::handler_for: Some(handler), or None for "unsupported file format"
HandlerFor(format, file_path, scope) ==
    IF format = None
    THEN IF IsHandlerFor("SafeTensors", file_path, scope) THEN Some("SafeTensors")
         ELSE IF IsHandlerFor("ONNX", file_path, scope) THEN Some("ONNX")
         ELSE IF IsHandlerFor("GGUF", file_path, scope) THEN Some("GGUF")
         ELSE IF IsHandlerFor("PyTorch", file_path, scope) THEN Some("PyTorch")
         ELSE None
    ELSE IF format[1] = "SafeTensors" THEN Some("SafeTensors")
         ELSE IF format[1] = "ONNX" THEN Some("ONNX")
         ELSE IF format[1] = "GGUF" THEN Some("GGUF")
         ELSE IF format[1] = "PyTorch" THEN Some("PyTorch")
         ELSE None

\* the format detection of the inspect command: gguf::is_gguf and
\* pytorch::is_pytorch; safetensors::is_safetensors and onnx::is_onnx, which
\* the command calls, claim the extension safetensors and the extension onnx
IsGguf(file_path) == ToAsciiLowercase(ToStrOrEmpty(Extension(file_path))) = ExtGguf
IsPytorch(file_path) ==
    \/ ToAsciiLowercase(ToStrOrEmpty(Extension(file_path))) \in {ExtPt, ExtPth}
    \/ EndsWith(ToAsciiLowercase(ToStrOrEmpty(FileName(file_path))), PytorchModelBin)
    \/ /\ Contains(ToAsciiLowercase(ToStrOrEmpty(FileName(file_path))), PytorchModel)
       /\ EndsWith(ToAsciiLowercase(ToStrOrEmpty(FileName(file_path))), DotBin)
IsSafetensors(file_path) ==
    ToAsciiLowercase(ToStrOrEmpty(Extension(file_path))) = ExtSafetensors
IsOnnx(file_path) == ToAsciiLowercase(ToStrOrEmpty(Extension(file_path))) = ExtOnnx

\* cli::inspect: the inspector the command runs, None for "unsupported file
\* format"; forced is args.format.unwrap_or(FileType::Unknown)
InspectorFor(forced, file_path) ==
    IF forced = "SafeTensors" \/ IsSafetensors(file_path) THEN Some("SafeTensors")
    ELSE IF forced = "ONNX" \/ IsOnnx(file_path) THEN Some("ONNX")
    ELSE IF forced = "GGUF" \/ IsGguf(file_path) THEN Some("GGUF")
    ELSE IF forced = "PyTorch" \/ IsPytorch(file_path) THEN Some("PyTorch")
    ELSE None

\* a call of the dispatcher: who called, with what, and the handler it got
\* (format, file_path, scope), the handler it got, and for a call of
\* paths_to_sign of that handler the result
Query(caller, format, file_path, scope, handler, listed) ==
    [caller |-> caller, format |-> format, file_path |-> file_path,
     scope |-> scope, handler |-> handler, listed |-> listed]
NoQuery == Query("none", None, <<>>, "Signing", None, None)

\* ------------------------------------------------------- path resolver
\* Path::is_file: follows symbolic links
IsFile(path) == Canonicalize(path, files) \in DOMAIN files

\* a result of the resolver: the outcome and the paths
Found(paths) == [outcome |-> Ok, paths |-> paths]
NotFound(kind) == [outcome |-> Outcome(kind), paths |-> <<>>]

\* the paths a document names, after the path of the document itself
WithReferences(file_path, names) ==
    <<file_path>> \o SetToSortedSeq({JoinIfRelative(Parent(file_path), n) : n \in names},
                                    "Path")

\* paths_to_sign of the SafeTensors handler pushing one path for every entry
\* of weight_map
PathsOfEveryTensor(handler, file_path) ==
    LET content == files[Canonicalize(file_path, files)]
    IN  IF handler = "SafeTensors" /\ IsSafetensorsIndex(file_path)
             /\ IsFile(file_path) /\ content \in DOMAIN WeightMaps
        THEN Found(<<file_path>>
                   \o [i \in DOMAIN WeightMaps[content] |->
                         JoinIfRelative(Parent(file_path), WeightMaps[content][i])])
        ELSE Found(<<file_path>>)

\* Handler::paths_to_sign of the four handlers
PathsToSign(handler, file_path) ==
    LET content == files[Canonicalize(file_path, files)]
    IN  IF handler = "SafeTensors" /\ IsSafetensorsIndex(file_path)
        THEN IF ~IsFile(file_path) THEN NotFound("IoError")
             ELSE IF content \notin DOMAIN WeightMaps THEN NotFound("ParseError")
             ELSE Found(WithReferences(file_path, Range(WeightMaps[content])))
        ELSE IF handler = "ONNX"
        THEN IF ~IsFile(file_path) THEN NotFound("IoError")
             ELSE IF content \notin DOMAIN OnnxModels THEN NotFound("ParseError")
             ELSE Found(WithReferences(file_path, OnnxModels[content]))
        ELSE Found(<<file_path>>)

\* .map(|paths| paths.iter().map(|path| path.canonicalize().unwrap())) on the
\* result of paths_to_sign
CanonicalizeAll(listed) ==
    IF listed.outcome # Ok THEN listed
    ELSE IF \E i \in DOMAIN listed.paths : Canonicalize(listed.paths[i], files) = NoPath
    THEN NotFound("PanicUnwrap")
    ELSE Found([i \in DOMAIN listed.paths |-> Canonicalize(listed.paths[i], files)])

\* get_paths_for returning nothing for a file that no handler claims
PathsWithSkipping(handler, file_path) ==
    IF handler # None THEN CanonicalizeAll(PathsToSign(handler[1], file_path))
    ELSE Found(<<>>)

\* the two branches of get_paths_for, on the result of handler_for
PathsWith(handler, file_path) ==
    IF handler # None THEN CanonicalizeAll(PathsToSign(handler[1], file_path))
    ELSE IF Canonicalize(file_path, files) = NoPath THEN NotFound("IoError")
    ELSE Found(<<Canonicalize(file_path, files)>>)

\* cli::signing::get_paths_for
GetPathsFor(format, file_path) ==
    PathsWith(HandlerFor(format, file_path, "Signing"), file_path)

\* glob(file_path/*): the entries of the directory itself only
GlobEntries(file_path) ==
    LET dir == Canonicalize(file_path, files)
        below == {q \in DOMAIN files \cup DOMAIN SymLinks \cup Dirs :
                     Len(q) = Len(dir) + 1 /\ StripPrefix(q, dir) # NoPath}
    IN  IF dir = NoPath \/ dir \in DOMAIN files THEN <<>>
        ELSE SetToSortedSeq({file_path \o StripPrefix(q, dir) : q \in below}, "Path")

\* glob(file_path/**/*): everything below the directory, in sorted order,
\* spelled with file_path in front
Glob(file_path) ==
    LET dir == Canonicalize(file_path, files)
        below == {q \in DOMAIN files \cup DOMAIN SymLinks \cup Dirs :
                     Len(q) > Len(dir) /\ StripPrefix(q, dir) # NoPath}
    IN  IF dir = NoPath \/ dir \in DOMAIN files THEN <<>>
        ELSE SetToSortedSeq({file_path \o StripPrefix(q, dir) : q \in below}, "Path")

\* the loop of get_paths_of_interest over the entries of the directory;
\* unique.extend(get_paths_for(format, &path)?) on the paths of one entry
RECURSIVE CollectPaths(_, _, _)
Extend(format, rest, unique, one) ==
    IF one.outcome # Ok THEN one
    ELSE CollectPaths(format, rest, unique \cup Range(one.paths))

CollectPaths(format, entries, unique) ==
    IF entries = <<>> THEN Found(SetToSortedSeq(unique, "PathDescending"))
    ELSE IF ~IsFile(Head(entries)) THEN CollectPaths(format, Tail(entries), unique)
    ELSE Extend(format, Tail(entries), unique, GetPathsFor(format, Head(entries)))

\* get_paths_of_interest returning the list it collected, empty or not
AnyList(paths) == paths

\* if paths.is_empty() { return Err("no compatible paths found") }
NonEmpty(paths) ==
    IF paths.outcome = Ok /\ paths.paths = <<>> THEN NotFound("NoCompatiblePaths")
    ELSE paths

\* cli::signing::get_paths_of_interest
GetPathsOfInterest(format, file_path) ==
    NonEmpty(IF IsFile(file_path) THEN GetPathsFor(format, file_path)
             ELSE CollectPaths(format, Glob(file_path), {}))

ExtSignature == <<115, 105, 103, 110, 97, 116, 117, 114, 101>>
NameSignature ==
    <<116, 101, 110, 115, 111, 114, 45, 109, 97, 110, 46, 115, 105, 103,
      110, 97, 116, 117, 114, 101>>

\* cli::signing::signature_path; NoPath when canonicalize().unwrap() panics
SignaturePath(file_path, output) ==
    IF output # None THEN Canonicalize(output[1], files)
    ELSE IF IsFile(file_path)
    THEN Canonicalize(WithExtension(file_path, ExtSignature), files)
    ELSE Append(file_path, NameSignature)

\* ------------------------------------------------------------ sign command
\* the pieces of the JSON text of a manifest
\*   {"version":"1.0","public_key":
JsonHead ==
    <<123, 34, 118, 101, 114, 115, 105, 111, 110, 34, 58, 34, 49, 46, 48,
      34, 44, 34, 112, 117, 98, 108, 105, 99, 95, 107, 101, 121, 34, 58>>
\*   ,"algorithms":{"hash":"BLAKE2b512","signature":"Ed25519"},"checksums":{
JsonAlgorithms ==
    <<44, 34, 97, 108, 103, 111, 114, 105, 116, 104, 109, 115, 34, 58, 123,
      34, 104, 97, 115, 104, 34, 58, 34, 66, 76, 65, 75, 69, 50, 98, 53,
      49, 50, 34, 44, 34, 115, 105, 103, 110, 97, 116, 117, 114, 101, 34,
      58, 34, 69, 100, 50, 53, 53, 49, 57, 34, 125, 44, 34, 99, 104, 101,
      99, 107, 115, 117, 109, 115, 34, 58, 123>>
\*   },"signature":
JsonSignature ==
    <<125, 44, 34, 115, 105, 103, 110, 97, 116, 117, 114, 101, 34, 58>>
JsonNull == <<110, 117, 108, 108>>

\* a JSON string (the strings here hold nothing that needs escaping)
Quoted(str) == <<34>> \o str \o <<34>>

\* serde_json::to_string(&manifest): the serialized fields that the model
\* holds, in the order of the struct (signed_at and signed_with, the clock
\* and the package version, are not part of the model)
ToJson(manifest) ==
    LET keys == MapKeys(manifest.checksums)
    IN  JsonHead
        \o (IF manifest.public_key = None THEN JsonNull
            ELSE Quoted(manifest.public_key[1]))
        \o JsonAlgorithms
        \o Join([i \in DOMAIN keys |->
                    Quoted(keys[i]) \o <<58>> \o Quoted(manifest.checksums[keys[i]])],
                <<44>>)
        \o JsonSignature \o Quoted(manifest.signature) \o <<125>>

\* the UTF-8 bytes of the characters lo..hi of a string of ASCII characters
\* and U+FFFD
RECURSIVE Utf8Bytes(_, _, _)
Utf8Bytes(str, lo, hi) ==
    IF lo > hi THEN <<>>
    ELSE IF lo = hi
         THEN (IF str[lo] = ReplacementChar THEN <<239, 191, 189>> ELSE <<str[lo]>>)
    ELSE Utf8Bytes(str, lo, (lo + hi) \div 2)
            \o Utf8Bytes(str, ((lo + hi) \div 2) + 1, hi)

\* str::as_bytes
Utf8Encode(str) == Utf8Bytes(str, 1, Len(str))

\* the private key files: /o/k holds the PKCS#8 document of the signer's key
KeyFiles == (<<NameO, NameK>> :> 2)

\* signing::load_key: None when the file cannot be read or parsed
LoadKey(key_path) ==
    IF key_path \in DOMAIN KeyFiles THEN Some(KeyFiles[key_path]) ELSE None

\* where std::fs::write(path, ..) puts the file: NoPath when the directory
\* does not exist or the path is a directory
WriteTarget(path) ==
    LET dir == Canonicalize(Parent(path), files)
        existing == Canonicalize(path, files)
    IN  IF dir = NoPath \/ dir \in DOMAIN files THEN NoPath
        ELSE IF existing \in Dirs THEN NoPath
        ELSE IF existing # NoPath THEN existing
        ELSE Append(dir, FileName(path))

\* what a run of the sign command leaves: its outcome, the resolved paths,
\* the manifest it built, the file it wrote
Run(outcome, paths, manifest, written) ==
    [outcome |-> outcome, paths |-> paths, manifest |-> manifest, written |-> written]
NoRun == Run(Pending, <<>>, None, None)

\* the end of a sign that writes the manifest without looking at the result
\* of manifest.sign
WriteManifestAnyway(paths, signed, signature_path, target) ==
    IF signature_path = NoPath
    THEN Run(Outcome("PanicUnwrap"), paths, Some(signed.manifest), None)
    ELSE IF target = NoPath
    THEN Run(Outcome("IoError"), paths, Some(signed.manifest), None)
    ELSE Run(signed.outcome, paths, Some(signed.manifest), Some(target))

\* the end of sign: manifest.sign(&mut paths_to_sign)?, then signature_path
\* and std::fs::write
WriteManifest(paths, signed, signature_path, target) ==
    IF signed.outcome # Ok THEN Run(signed.outcome, paths, Some(signed.manifest), None)
    ELSE IF signature_path = NoPath
    THEN Run(Outcome("PanicUnwrap"), paths, Some(signed.manifest), None)
    ELSE IF target = NoPath
    THEN Run(Outcome("IoError"), paths, Some(signed.manifest), None)
    ELSE Run(Ok, paths, Some(signed.manifest), Some(target))

\* sign from get_paths_of_interest(..)? on: found is its result, manifest that
\* of Manifest::from_signing_key
SignPaths(found, manifest, signature_path) ==
    IF found.outcome # Ok THEN Run(found.outcome, <<>>, None, None)
    ELSE IF manifest = None THEN Run(Outcome("IoError"), found.paths, None, None)
    ELSE WriteManifest(found.paths, Sign(manifest[1], found.paths),
                       signature_path, WriteTarget(signature_path))

\* cli::signing::sign
CliSignRun(file_path, format, key_path, output) ==
    IF LoadKey(key_path) = None THEN Run(Outcome("KeyError"), <<>>, None, None)
    ELSE SignPaths(GetPathsOfInterest(format, file_path),
                   FromSigningKey(IF IsFile(file_path) THEN Parent(file_path)
                                  ELSE file_path,
                                  LoadKey(key_path)[1]),
                   SignaturePath(file_path, output))

\* the arguments of sign (SignArgs) and of verify (VerifyArgs, where output
\* is the --signature option)
Args(file_path, format, key_path, output) ==
    [file_path |-> file_path, format |-> format, key_path |-> key_path,
     output |-> output]
NoArgs == Args(<<>>, None, <<>>, None)

\* a printed line: the stream, the fixed text and the path it shows
Line(stream, text, path) == [stream |-> stream, text |-> text, path |-> path]

\* the paths the loop of Manifest::sign / Manifest::verify announces
\* ("Signing .. ...", "Hashing .. ..."): up to the one compute_checksum fails on
RECURSIVE Attempted(_, _)
Attempted(manifest, paths) ==
    IF paths = <<>> THEN <<>>
    ELSE <<Head(paths)>>
         \o (IF ComputeChecksum(manifest, Head(paths)).outcome = Ok
             THEN Attempted(manifest, Tail(paths)) ELSE <<>>)

\* the outcomes that are a panic; the others but Ok are an Err
Panics == {"Panic", "PanicUnwrap"}

\* the last line of a command that failed: main prints "Error: .." for an Err,
\* the panic handler its message
LastWords(outcome) ==
    IF outcome = Ok THEN <<>>
    ELSE IF outcome.kind \in Panics THEN <<Line("stderr", "panicked", <<>>)>>
    ELSE <<Line("stderr", "Error", <<>>)>>

\* everything the sign command prints: load_key, the loop of Manifest::sign,
\* the two lines of cli sign, and main
SignPrinted(key_path, run, attempted, signature_path) ==
    <<Line("stdout", "Loading signing key from", key_path)>>
    \o [i \in 1..Len(attempted) |-> Line("stdout", "Signing", attempted[i])]
    \o (IF run.manifest # None /\ run.manifest[1].signature # <<>>
        THEN <<Line("stdout", "Signature", <<>>)>> ELSE <<>>)
    \o (IF run.written # None
        THEN <<Line("stdout", "Manifest written to", signature_path)>> ELSE <<>>)
    \o LastWords(run.outcome)

\* ---------------------------------------------------------- verify command
\* String::from_utf8 on bytes whose only characters outside ASCII are U+FFFD
\* (EF BF BD): None when the bytes are not such text
IsContinuation(b) == b \in {191, 189}
IsTextAt(bytes, i) ==
    \/ bytes[i] < 128
    \/ bytes[i] = 239 /\ i + 2 <= Len(bytes) /\ bytes[i + 1] = 191 /\ bytes[i + 2] = 189
    \/ bytes[i] = 191 /\ i > 1 /\ bytes[i - 1] = 239
    \/ bytes[i] = 189 /\ i > 2 /\ bytes[i - 1] = 191 /\ bytes[i - 2] = 239
Utf8Decode(bytes) ==
    IF \E i \in 1..Len(bytes) : ~IsTextAt(bytes, i) THEN None
    ELSE CHOOSE text \in
             {Some([i \in 1..Len(first) |->
                      IF first[i] = 239 THEN ReplacementChar ELSE first[i]]) :
                 first \in {SelectSeq(bytes, LAMBDA b : ~IsContinuation(b))}} : TRUE

\* the strings of a JSON text, in order: what stands between the 1st and the
\* 2nd quote, the 3rd and the 4th, ... (quotes is the set of the positions of
\* the quotes; the strings here hold nothing that is escaped)
NthQuote(quotes, n) == CHOOSE i \in quotes : Cardinality({j \in quotes : j < i}) = n - 1
StringsOf(text, quotes) ==
    [k \in 1..(Cardinality(quotes) \div 2) |->
        SubSeq(text, NthQuote(quotes, 2 * k - 1) + 1, NthQuote(quotes, 2 * k) - 1)]

\* the number of strings of a manifest text before its checksums: "version",
\* "1.0", "public_key", the key, "algorithms", "hash", "BLAKE2b512",
\* "signature", "Ed25519", "checksums"; one less when public_key is null
StringsBeforeChecksums == 10

\* the positions of the checksum keys among the strings: every second one
\* from before + 1 up to the last two, which are "signature" and its value
KeyPositions(strings, before) ==
    {i \in (before + 1)..(Len(strings) - 2) : (i - before) % 2 = 1}

\* the manifest that the strings spell out; before is the number of strings
\* in front of the checksums
ManifestOf(strings, before) ==
    [ public_key    |-> IF before = StringsBeforeChecksums
                        THEN Some(strings[4]) ELSE None,
      checksums     |-> [key \in {strings[i] : i \in KeyPositions(strings, before)} |->
                            strings[(CHOOSE i \in KeyPositions(strings, before) :
                                        strings[i] = key) + 1]],
      signature     |-> strings[Len(strings)],
      signing_key   |-> None,
      verifying_key |-> None,
      base_path     |-> <<>> ]

\* serde_json::from_str::<Manifest>: the manifest of which the text is the
\* serialization, None when the text is that of no manifest
FromJsonStrings(text, strings) ==
    IF Len(strings) > StringsBeforeChecksums
       /\ ToJson(ManifestOf(strings, StringsBeforeChecksums)) = text
    THEN Some(ManifestOf(strings, StringsBeforeChecksums))
    ELSE IF Len(strings) >= StringsBeforeChecksums
            /\ ToJson(ManifestOf(strings, StringsBeforeChecksums - 1)) = text
    THEN Some(ManifestOf(strings, StringsBeforeChecksums - 1))
    ELSE None
FromJson(text) ==
    CHOOSE m \in {FromJsonStrings(s, StringsOf(s, q)) :
                    s \in {text}, q \in {{i \in 1..Len(text) : text[i] = 34}}} : TRUE

\* the public key file: /o/p holds the raw public key of the signer
NameP == <<112>>
PublicKeyFiles == (<<NameO, NameP>> :> PublicKeyOf(2))

\* std::fs::read: the bytes of a file, None for an Err
ReadFile(path) ==
    IF path \in DOMAIN PublicKeyFiles THEN Some(PublicKeyFiles[path])
    ELSE IF IsFile(path) THEN Some(files[Canonicalize(path, files)])
    ELSE None

\* Manifest::from_signature_path, from the bytes that std::fs::read_to_string
\* reads on: the text, the parsed manifest, base_path.canonicalize()
Loaded(manifest) == [outcome |-> Ok, manifest |-> manifest]
NotLoaded(kind) == [outcome |-> Outcome(kind), manifest |-> None]
FromSignatureManifest(base_path, parsed) ==
    IF parsed = None THEN NotLoaded("ParseError")
    ELSE IF Canonicalize(base_path, files) = NoPath THEN NotLoaded("IoError")
    ELSE Loaded([parsed[1] EXCEPT !.base_path = Canonicalize(base_path, files)])
FromSignatureText(base_path, text) ==
    IF text = None THEN NotLoaded("IoError")
    ELSE FromSignatureManifest(base_path, FromJson(text[1]))
FromSignaturePath(base_path, path) ==
    IF ReadFile(path) = None THEN NotLoaded("IoError")
    ELSE FromSignatureText(base_path, Utf8Decode(ReadFile(path)[1]))

\* Manifest::from_public_key_path; None for an Err
FromPublicKeyPath(base_path, public_key) ==
    IF ReadFile(public_key) = None THEN None
    ELSE FromPublicKey(base_path, ReadFile(public_key)[1])

\* paths_to_verify.retain(|p| p != &signature_path)
Retain(paths, signature_path) == SelectSeq(paths, LAMBDA p : p # signature_path)

\* the end of verify: manifest.verify(&mut paths_to_verify, &signature)?
Verdict(paths, done) == Run(done.outcome, paths, Some(done.manifest), None)

\* verify from Manifest::from_signature_path(..)? on: reference is its result,
\* manifest that of from_public_key_path, found that of get_paths_of_interest
VerifyPaths(reference, manifest, found, signature_path) ==
    IF reference.outcome # Ok THEN Run(reference.outcome, <<>>, None, None)
    ELSE IF manifest = None THEN Run(Outcome("IoError"), <<>>, None, None)
    ELSE IF found.outcome # Ok THEN Run(found.outcome, <<>>, None, None)
    ELSE Verdict(Retain(found.paths, signature_path),
                 Verify(manifest[1], Retain(found.paths, signature_path),
                        reference.manifest))

\* verify with base_path and signature_path computed
VerifyFrom(base_path, signature_path, format, file_path, key_path) ==
    IF signature_path = NoPath THEN Run(Outcome("PanicUnwrap"), <<>>, None, None)
    ELSE VerifyPaths(FromSignaturePath(base_path, signature_path),
                     FromPublicKeyPath(base_path, key_path),
                     GetPathsOfInterest(format, file_path),
                     signature_path)

\* cli::signing::verify; the run holds the verifying manifest once
\* Manifest::verify was called
CliVerifyRun(file_path, format, key_path, signature) ==
    VerifyFrom(IF IsFile(file_path) THEN Parent(file_path) ELSE file_path,
               SignaturePath(file_path, signature), format, file_path, key_path)

\* everything the verify command prints: the line of cli verify, the loop of
\* Manifest::verify, the last line of cli verify, and main
VerifyPrinted(run, attempted, signature_path) ==
    (IF signature_path = NoPath THEN <<>>
     ELSE <<Line("stdout", "Verifying signature", signature_path)>>)
    \o [i \in 1..Len(attempted) |-> Line("stdout", "Hashing", attempted[i])]
    \o (IF run.outcome = Ok THEN <<Line("stdout", "Signature verified", <<>>)>>
        ELSE <<>>)
    \o LastWords(run.outcome)

\* ------------------------------------------------------ tensor inspection
\* onnx: data_type_bits by TensorProto.data_type 1..23; any other value panics
OnnxBits ==
    <<32, 8, 8, 16, 16, 32, 64, 8, 8, 16, 64, 32, 64, 64, 128, 16, 8, 8, 8, 8,
      4, 4, 4>>
\* onnx: data_type_string
OnnxNames ==
    <<"FLOAT", "UINT8", "INT8", "UINT16", "INT16", "INT32", "INT64", "STRING",
      "BOOL", "FLOAT16", "DOUBLE", "UINT32", "UINT64", "COMPLEX64",
      "COMPLEX128", "BFLOAT16", "FLOAT8E4M3FN", "FLOAT8E4M3FNUZ",
      "FLOAT8E5M2", "FLOAT8E5M2FNUZ", "UINT4", "INT4", "FLOAT4E2M1">>
\* gguf: data_type_bits by GGMLType
GgufBits ==
    [F32 |-> 32, F16 |-> 16, Q4_0 |-> 4, Q4_1 |-> 4, Q5_0 |-> 5, Q5_1 |-> 5,
     Q8_0 |-> 8, Q8_1 |-> 8, Q2K |-> 2, Q3K |-> 3, Q4K |-> 4, Q5K |-> 5,
     Q6K |-> 6, Q8K |-> 8, I8 |-> 8, I16 |-> 16, I32 |-> 32, Count |-> 32]

\* data_type_bits of the handler; None when it panics
DataTypeBits(handler, dtype) ==
    IF handler = "ONNX"
    THEN (IF dtype \in DOMAIN OnnxBits THEN Some(OnnxBits[dtype]) ELSE None)
    ELSE Some(GgufBits[dtype])

\* the dtype string of a descriptor: data_type_string, format!("{:?}", type)
DataTypeString(handler, dtype) ==
    IF handler = "ONNX"
    THEN (IF dtype \in DOMAIN OnnxNames THEN OnnxNames[dtype] ELSE "UNKNOWN")
    ELSE dtype

\* dims.iter().map(|d| *d as usize).product::<usize>()
RECURSIVE Product(_)
Product(dims) == IF dims = <<>> THEN 1 ELSE Head(dims) * Product(Tail(dims))

\* a tensor of a model: TensorProto (name, data_type, dims), GGUFTensorInfo
\* (name, tensor_type, dimensions)
Tensor(name, dtype, dims) == [name |-> name, dtype |-> dtype, dims |-> dims]

\* the size of a descriptor rounded up to whole bytes
CeilSize(bits, dims) ==
    IF dims = <<>> THEN 0 ELSE (bits * Product(dims) + 7) \div 8

\* the size field of build_tensor_descriptor
TensorSize(bits, dims) ==
    IF dims = <<>> THEN 0 ELSE (bits * Product(dims)) \div 8

\* build_tensor_descriptor of the two handlers
BuildTensorDescriptor(handler, tensor) ==
    [id    |-> Some(tensor.name),
     shape |-> tensor.dims,
     dtype |-> DataTypeString(handler, tensor.dtype),
     size  |-> TensorSize(IF tensor.dims = <<>> THEN 0
                          ELSE DataTypeBits(handler, tensor.dtype)[1],
                          tensor.dims)]

\* the bits of one tensor in the sum of inspection.data_size
TensorBits(handler, tensor) ==
    IF tensor.dims = <<>> THEN 0
    ELSE DataTypeBits(handler, tensor.dtype)[1] * Product(tensor.dims)

\* data_size as the sum of the sizes of the descriptors
DataSizeOfSizes(handler, tensors) ==
    SumSeq([i \in DOMAIN tensors |->
               TensorSize(IF tensors[i].dims = <<>> THEN 0
                          ELSE DataTypeBits(handler, tensors[i].dtype)[1],
                          tensors[i].dims)])

\* inspection.data_size: .map(bits * product).sum::<usize>() / 8
DataSize(handler, tensors) ==
    SumSeq([i \in DOMAIN tensors |-> TensorBits(handler, tensors[i])]) \div 8

\* the detail levels of the inspect command
DetailLevels == {"Brief", "Full"}

\* .filter(|t| filter.map_or(true, |f| t.name.contains(f)))
Filtered(tensors, filter) ==
    SelectSeq(tensors, LAMBDA t : filter = None \/ Contains(t.name, filter[1]))

\* a tensor with dimensions whose data type data_type_bits panics on
Unsupported(handler, tensors) ==
    \E i \in DOMAIN tensors :
        tensors[i].dims # <<>> /\ DataTypeBits(handler, tensors[i].dtype) = None

\* what Handler::inspect of the ONNX and GGUF handlers computes from the
\* tensors of the model: the outcome and the fields num_tensors, data_size,
\* tensors of the Inspection
Inspected(outcome, num_tensors, data_size, tensors) ==
    [outcome |-> outcome, num_tensors |-> num_tensors, data_size |-> data_size,
     tensors |-> tensors]

Inspect(handler, tensors, detail, filter) ==
    IF Unsupported(handler, tensors) THEN Inspected(Outcome("Panic"), 0, 0, None)
    ELSE Inspected(Ok, Len(tensors), DataSize(handler, tensors),
                   IF detail = "Full"
                   THEN Some([i \in DOMAIN Filtered(tensors, filter) |->
                                BuildTensorDescriptor(handler,
                                                      Filtered(tensors, filter)[i])])
                   ELSE None)

\* a call of inspect: the handler, the tensors of the model file, the
\* arguments, and the result
Inspecting(handler, tensors, detail, filter, report) ==
    [handler |-> handler, model |-> tensors, detail |-> detail,
     filter |-> filter, report |-> report]
NoInspection == Inspecting(None, <<>>, "Brief", None, None)

\* ------------------------------------------------------- docker inspector
\* what the environment answers to the commands of one run: docker version,
\* docker images -q, docker build, and the exit status, stdout and stderr of
\* the container
Environment(docker, image, build, status, stdout, stderr) ==
    [docker |-> docker, image |-> image, build |-> build, status |-> status,
     stdout |-> stdout, stderr |-> stderr]

\* the assets of the PyTorch inspector: Dockerfile, script, requirements
Assets == <<<<70>>, <<112>>, <<114>>>>

\* Inspector::new: "tensor-man-inspect-" and the hex digest of the assets
ImageId(assets) ==
    <<116, 101, 110, 115, 111, 114, 45, 109, 97, 110, 45, 105, 110, 115, 112,
      101, 99, 116, 45>>
    \o HexEncode(Blake2b512(assets[1] \o assets[2] \o assets[3]))

\* format!("-v{src}:{dst}"): a bind mount without options, which docker
\* mounts read-write
Volume(src, dst) == [src |-> src, dst |-> dst, mode |-> "rw"]

\* format!("/{}", file_name)
MountPoint(file_name) == <<47>> \o file_name

\* a command run_command started: the program with its first words, and for
\* docker run the flags, the volumes, the image and the arguments
Command(words, flags, volumes, image, args) ==
    [words |-> words, flags |-> flags, volumes |-> volumes, image |-> image,
     args |-> args]
Plain(words) == Command(words, {}, <<>>, <<>>, <<>>)

\* docker::run: docker run --rm --network=none -v.. image args
DockerRun(image_id, args, volumes) ==
    Command("docker run", {"--rm", "--network=none"}, volumes, image_id, args)

\* the volumes of Inspector::run: the model file, and the additional files
\* that exist next to it
Volumes(canonical, additional_files) ==
    <<Volume(canonical, MountPoint(FileName(canonical)))>>
    \o [i \in DOMAIN SelectSeq(additional_files,
                                LAMBDA a : Append(Parent(canonical), a) \in DOMAIN files) |->
          Volume(Append(Parent(canonical),
                        SelectSeq(additional_files,
                                  LAMBDA a : Append(Parent(canonical), a)
                                                \in DOMAIN files)[i]),
                 MountPoint(SelectSeq(additional_files,
                                      LAMBDA a : Append(Parent(canonical), a)
                                                    \in DOMAIN files)[i]))]

\* the arguments of the script: the mount point, --filter=.., --detailed
ScriptArgs(file_name, detail, filter) ==
    <<MountPoint(file_name)>>
    \o (IF filter = None THEN <<>> ELSE <<"--filter=" :> filter[1]>>)
    \o (IF detail = "Full" THEN <<"--detailed">> ELSE <<>>)

\* a run of the inspector: the outcome, the commands in order, and whether
\* an Inspection was returned
Sandboxed(outcome, commands) == [outcome |-> outcome, commands |-> commands]
NoSandbox == [env |-> None, file_path |-> <<>>, run |-> Sandboxed(Pending, <<>>)]

\* Inspector::run from file_path.canonicalize()? on, after the commands so far
RunContainer(env, commands, canonical, additional_files, detail, filter) ==
    IF canonical = NoPath THEN Sandboxed(Outcome("IoError"), commands)
    ELSE IF ToStrOrEmpty(FileName(canonical)) # FileName(canonical)
    THEN Sandboxed(Outcome("PanicUnwrap"), commands)
    ELSE Sandboxed(IF ~env.status THEN Outcome("CommandFailed")
                   ELSE IF env.stderr # "" THEN Outcome("ContainerError")
                   ELSE IF env.stdout # "inspection" THEN Outcome("ParseError")
                   ELSE Ok,
                   Append(commands,
                          DockerRun(ImageId(Assets),
                                    ScriptArgs(FileName(canonical), detail, filter),
                                    Volumes(canonical, additional_files))))

\* Inspector::run: docker_exists, build_if_needed, then the container
InspectorRun(env, file_path, additional_files, detail, filter) ==
    IF ~env.docker
    THEN Sandboxed(Outcome("NoDocker"), <<Plain("docker version")>>)
    ELSE IF env.image
    THEN RunContainer(env, <<Plain("docker version"), Plain("docker images")>>,
                      Canonicalize(file_path, files), additional_files, detail, filter)
    ELSE IF ~env.build
    THEN Sandboxed(Outcome("CommandFailed"),
                   <<Plain("docker version"), Plain("docker images"),
                     Plain("docker build")>>)
    ELSE RunContainer(env, <<Plain("docker version"), Plain("docker images"),
                             Plain("docker build")>>,
                      Canonicalize(file_path, files), additional_files, detail, filter)

\* ----------------------------------------------------------------- inputs
\* the path lists a caller hands to sign and to verify: up to MaxPaths
\* different spellings, each set of them once, in descending order (sign and
\* verify sort the list they get)
PathLists ==
    {SetToSortedSeq(S, "PathDescending") :
        S \in {T \in SUBSET Spellings : Cardinality(T) \in 1..MaxPaths}}

\* the arguments of the sign command: directories, model files, a symbolic
\* link to a file, a path that does not exist; every format override; the key
\* file or a file that is none; no --output, an existing file, a missing one
CliFilePaths ==
    {<<NameW>>, <<NameE>>, <<NameU>>, <<NameB, NameInner>>, <<NameW, DotDot, NameE>>,
     ModelA, ModelI, ModelG, ModelJ, ModelC, EscapeI, EscapeG, BrokenQ, LinkL,
     <<NameO, NameS>>,
     <<NameD>>, <<NameB>>, <<NameX>>, ModelR, DirT,
     <<Rel, NameA>>, <<Rel, CurDir, NameA>>, <<Rel, NameR>>, <<Rel, CurDir>>}
Formats == {None} \cup {Some(f) : f \in FileTypes}
KeyPaths == {<<NameO, NameK>>, FileM}
Outputs == {None, Some(FileZ), Some(<<NameO, NameS>>)}

\* the arguments of the verify command: the public key file or a file that
\* is none; the paths, formats and --signature options are those of sign
VerifyKeyPaths == {<<NameO, NameP>>, FileM}

\* the roots without a regular file: the empty directory, a path that does
\* not exist
EmptyRoots == {<<NameX>>, <<NameO, NameS>>}

\* the paths handed to the dispatcher (it reads no file): m.gguf, m.pt,
\* A.SAFETENSORS, x_pytorch_model.fp16.bin, .safetensors (a name without
\* extension), and the model files
PathGguf == <<NameW, <<109, 46, 103, 103, 117, 102>>>>
PathPt == <<NameW, <<109, 46, 112, 116>>>>
PathUpper == <<NameW, <<65, 46, 83, 65, 70, 69, 84, 69, 78, 83, 79, 82, 83>>>>
PathFp16Bin ==
    <<NameW, <<120, 95, 112, 121, 116, 111, 114, 99, 104, 95, 109, 111, 100,
               101, 108, 46, 102, 112, 49, 54, 46, 98, 105, 110>>>>
PathDotSafetensors ==
    <<NameW, <<46, 115, 97, 102, 101, 116, 101, 110, 115, 111, 114, 115>>>>
\* x_pytorch_model.safetensors, pytorch_model.bin.onnx
PathModelSafetensors ==
    <<NameW, <<120, 95, 112, 121, 116, 111, 114, 99, 104, 95, 109, 111, 100,
               101, 108, 46>> \o ExtSafetensors>>
PathBinOnnx == <<NameW, PytorchModelBin \o <<46>> \o ExtOnnx>>
DispatchPaths ==
    {PathGguf, PathPt, PathUpper, PathFp16Bin, PathDotSafetensors,
     PathModelSafetensors, PathBinOnnx,
     ModelA, ModelI, ModelG, ModelR, FileFF}

\* ---------------------------------------------------------------- actions
Init ==
    /\ files = InitFiles
    /\ ref = None
    /\ signResult = Pending
    /\ ver = None
    /\ result = Pending
    /\ signedPaths = {}
    /\ edits = 0
    /\ cli = NoRun
    /\ dispatch = NoQuery
    /\ verifyRun = NoRun
    /\ signArgs = NoArgs
    /\ verifyArgs = NoArgs
    /\ printed = <<>>
    /\ resign = NoRun
    /\ inspection = NoInspection
    /\ sandbox = NoSandbox
    /\ tamper = None

\* let manifest = Manifest::from_signing_key(base_path, keypair)
NewSigningManifest(base_path, sk) ==
    /\ ref = None /\ cli = NoRun /\ dispatch = NoQuery /\ verifyRun = NoRun
    /\ FromSigningKey(base_path, sk) # None
    /\ ref' = FromSigningKey(base_path, sk)
    /\ signedPaths' = {}
    /\ UNCHANGED <<files, signResult, ver, result, edits, cli, cmds, tamper>>

\* ref_manifest.compute_checksum(path), called directly as the tests do
RefComputeChecksum(path) ==
    /\ ref # None /\ signResult = Pending /\ ver = None /\ edits = 0
    /\ Cardinality(DOMAIN ref[1].checksums) < MaxDirect
    /\ LET done == ComputeChecksum(ref[1], path)
       IN  /\ ref' = Some(done.manifest)
           /\ signResult' = IF done.outcome = Ok THEN Pending ELSE done.outcome
    /\ signedPaths' = {}
    /\ UNCHANGED <<files, ver, result, edits, cli, cmds, tamper>>

\* ref_manifest.sign(paths)
RefSign(paths) ==
    /\ ref # None /\ signResult = Pending /\ ver = None /\ edits = 0
    /\ LET done == Sign(ref[1], paths)
       IN  /\ ref' = Some(done.manifest)
           /\ signResult' = done.outcome
    /\ signedPaths' = Range(paths)
    /\ UNCHANGED <<files, ver, result, edits, cli, cmds, tamper>>

\* the content of a file is replaced, or the file is created
WriteFile(path, content) ==
    /\ ref # None /\ ref[1].checksums # <<>>
    /\ ver = None /\ signResult \in {Pending, Ok}
    /\ edits < MaxEdits
    /\ path \in EditablePaths
    /\ IF path \in DOMAIN files THEN files[path] # content ELSE TRUE
    /\ files' = [p \in (DOMAIN files) \cup {path} |->
                    IF p = path THEN content ELSE files[p]]
    /\ edits' = edits + 1
    /\ signedPaths' = {}
    /\ UNCHANGED <<ref, signResult, ver, result, cli, cmds, tamper>>

\* a file is renamed to a name that is free
RenameFile(from, to) ==
    /\ ref # None /\ ref[1].checksums # <<>>
    /\ ver = None /\ signResult \in {Pending, Ok}
    /\ edits < MaxEdits
    /\ from \in EditablePaths \cap DOMAIN files
    /\ to \in FilePaths \ DOMAIN files
    /\ files' = [p \in ((DOMAIN files) \ {from}) \cup {to} |->
                    IF p = to THEN files[from] ELSE files[p]]
    /\ edits' = edits + 1
    /\ signedPaths' = {}
    /\ UNCHANGED <<ref, signResult, ver, result, cli, cmds, tamper>>

\* let manifest = Manifest::from_public_key(base_path, pub_key)
NewVerifyingManifest(base_path, public_key_bytes) ==
    /\ ref # None /\ signResult \in {Pending, Ok} /\ ver = None
    /\ FromPublicKey(base_path, public_key_bytes) # None
    /\ ver' = FromPublicKey(base_path, public_key_bytes)
    /\ signedPaths' = {}
    /\ UNCHANGED <<files, ref, signResult, result, edits, cli, cmds, tamper>>

\* manifest.verify(paths, ref_manifest)
RunVerify(paths) ==
    /\ ver # None /\ result = Pending
    /\ LET done == Verify(ver[1], paths, ref[1])
       IN  /\ ver' = Some(done.manifest)
           /\ result' = done.outcome
    /\ UNCHANGED <<files, ref, signResult, signedPaths, edits, cli, cmds, tamper>>

\* tman sign file_path [--format f] -K key_path [-O output]: a run of the
\* command over the initial file system, or a second run with the same
\* arguments after a run that succeeded
CliSign(file_path, format, key_path, output) ==
    /\ ref = None /\ dispatch = NoQuery /\ verifyRun = NoRun /\ resign = NoRun
    /\ cli # NoRun => /\ cli.outcome = Ok
                      /\ signArgs = Args(file_path, format, key_path, output)
    /\ \E run \in {CliSignRun(file_path, format, key_path, output)} :
       \E attempted \in {IF run.manifest = None THEN <<>>
                         ELSE Attempted(run.manifest[1], SortPaths(run.paths))} :
          /\ cli' = IF cli = NoRun THEN run ELSE cli
          /\ resign' = IF cli = NoRun THEN NoRun ELSE run
          /\ files' = IF run.written = None THEN files
                      ELSE [p \in (DOMAIN files) \cup {run.written[1]} |->
                               IF p = run.written[1]
                               THEN Utf8Encode(ToJson(run.manifest[1]))
                               ELSE files[p]]
          /\ printed' = printed \o SignPrinted(key_path, run, attempted,
                                               SignaturePath(file_path, output))
    /\ signArgs' = Args(file_path, format, key_path, output)
    /\ UNCHANGED <<ref, signResult, ver, result, signedPaths, edits, dispatch,
                   verifyRun, verifyArgs, inspection, sandbox, tamper>>

\* tman verify, on the initial files or after a sign command with the same
\* format and the same file_path or a root without a regular file
CliVerify(file_path, format, key_path, signature) ==
    /\ ref = None /\ dispatch = NoQuery /\ verifyRun = NoRun
    /\ cli # NoRun => /\ file_path \in {signArgs.file_path} \cup EmptyRoots
                      /\ format = signArgs.format
    /\ \E run \in {CliVerifyRun(file_path, format, key_path, signature)} :
       \E attempted \in {IF run.manifest = None THEN <<>>
                         ELSE Attempted(run.manifest[1], SortPaths(run.paths))} :
          /\ verifyRun' = run
          /\ printed' = printed \o VerifyPrinted(run, attempted,
                                                 SignaturePath(file_path, signature))
    /\ verifyArgs' = Args(file_path, format, key_path, signature)
    /\ UNCHANGED <<files, ref, signResult, ver, result, signedPaths, edits, cli,
                   dispatch, signArgs, resign, inspection, sandbox, tamper>>

\* handler_for(format, file_path, scope)
HandlerQuery(format, file_path, scope) ==
    /\ ref = None /\ cli = NoRun /\ dispatch = NoQuery /\ verifyRun = NoRun
    /\ dispatch' = Query("handler_for", format, file_path, scope,
                         HandlerFor(format, file_path, scope), None)
    /\ UNCHANGED <<files, ref, signResult, ver, result, signedPaths, edits, cli,
                   verifyRun, signArgs, verifyArgs, printed, resign, inspection, sandbox, tamper>>

\* the paths paths_to_sign is called with: model files and index documents,
\* absolute and relative to the current directory
HandlerPaths ==
    {ModelA, ModelI, ModelJ, EscapeI, BrokenQ, ModelG, ModelR,
     <<Rel, NameA>>, <<Rel, NameJ>>, <<Rel, NameI>>, <<NameW, NameS>>}

\* handler.paths_to_sign(file_path)
ListPaths(handler, file_path) ==
    /\ ref = None /\ cli = NoRun /\ dispatch = NoQuery /\ verifyRun = NoRun
    /\ dispatch' = Query("paths_to_sign", None, file_path, "Signing",
                         Some(handler), Some(PathsToSign(handler, file_path)))
    /\ UNCHANGED <<files, ref, signResult, ver, result, signedPaths, edits, cli,
                   verifyRun, signArgs, verifyArgs, printed, resign, inspection, sandbox, tamper>>

\* handler.inspect(file_path, detail, filter) on a model file that holds the
\* given tensors
InspectModel(handler, tensors, detail, filter) ==
    /\ ref = None /\ cli = NoRun /\ dispatch = NoQuery /\ verifyRun = NoRun
    /\ inspection = NoInspection
    /\ inspection' = Inspecting(Some(handler), tensors, detail, filter,
                                Some(Inspect(handler, tensors, detail, filter)))
    /\ UNCHANGED <<files, ref, signResult, ver, result, signedPaths, edits, cli,
                   dispatch, verifyRun, signArgs, verifyArgs, printed, resign,
                   sandbox, tamper>>

\* Inspector::run(file_path, additional_files, detail, filter) in an
\* environment that answers its commands as env says
SandboxInspect(env, file_path, additional_files, detail, filter) ==
    /\ ref = None /\ cli = NoRun /\ dispatch = NoQuery /\ verifyRun = NoRun
    /\ sandbox = NoSandbox
    /\ sandbox' = [env |-> Some(env), file_path |-> file_path,
                   run |-> InspectorRun(env, file_path, additional_files, detail,
                                        filter)]
    /\ UNCHANGED <<files, ref, signResult, ver, result, signedPaths, edits, cli,
                   dispatch, verifyRun, signArgs, verifyArgs, printed, resign,
                   inspection, tamper>>

\* tman inspect file_path [--format f]: the choice of the inspector
CliInspect(format, file_path) ==
    /\ ref = None /\ cli = NoRun /\ dispatch = NoQuery /\ verifyRun = NoRun
    /\ dispatch' = Query("inspect", format, file_path, "Inspection",
                         InspectorFor(IF format = None THEN "Unknown" ELSE format[1],
                                      file_path),
                         None)
    /\ UNCHANGED <<files, ref, signResult, ver, result, signedPaths, edits, cli,
                   verifyRun, signArgs, verifyArgs, printed, resign, inspection, sandbox, tamper>>

Next ==
    \/ \E b \in BasePaths, sk \in SignerKeys : NewSigningManifest(b, sk)
    \/ \E p \in Spellings : RefComputeChecksum(p)
    \/ \E paths \in PathLists : RefSign(paths)
    \/ \E p \in EditablePaths, c \in Contents : WriteFile(p, c)
    \/ \E p \in EditablePaths, q \in FilePaths : RenameFile(p, q)
    \/ \E b \in BasePaths, sk \in KeyPairs : NewVerifyingManifest(b, PublicKeyOf(sk))
    \/ \E paths \in PathLists : RunVerify(paths)
    \/ \E p \in CliFilePaths, f \in Formats, k \in KeyPaths, o \in Outputs :
          CliSign(p, f, k, o)

Spec == Init /\ [][Next]_vars

\* the edits of a signature file between signing and verifying: the fields
\* public_key, signature and checksums of the manifest that
\* Manifest::from_signature_path reads are whatever the JSON text holds
ManifestEdits ==
    {"public_key_null", "signature_empty", "signature_not_hex",
     "signature_other_key", "checksum_dropped", "checksum_changed",
     "checksum_repeated", "checksum_renamed"}

\* a key pair that is not the signer's
OtherKey(sk) == CHOOSE other \in KeyPairs : other # sk

\* the manifest the edited signature file holds
Edited(manifest, edit) ==
    LET first == MapKeys(manifest.checksums)[1]
        empty == HexEncode(Blake2b512(<<>>))
        other == IF manifest.checksums[first] = empty
                 THEN HexEncode(Blake2b512(ContentTest)) ELSE empty
    IN  CASE edit = "public_key_null" -> [manifest EXCEPT !.public_key = None]
          [] edit = "signature_empty" -> [manifest EXCEPT !.signature = <<>>]
          [] edit = "signature_not_hex" -> [manifest EXCEPT !.signature = <<122, 122>>]
          [] edit = "signature_other_key" ->
                 [manifest EXCEPT !.signature =
                     HexEncode(Ed25519Sign(OtherKey(manifest.signing_key[1]),
                                           DataToSign(manifest)))]
          [] edit = "checksum_dropped" ->
                 [manifest EXCEPT !.checksums =
                     [k \in DOMAIN manifest.checksums \ {first} |-> manifest.checksums[k]]]
          [] edit = "checksum_changed" ->
                 [manifest EXCEPT !.checksums = [manifest.checksums EXCEPT ![first] = other]]
          [] edit = "checksum_repeated" ->
                 [manifest EXCEPT !.checksums =
                     [k \in DOMAIN manifest.checksums \cup {<<120>> \o first} |->
                         IF k \in DOMAIN manifest.checksums
                         THEN manifest.checksums[k] ELSE manifest.checksums[first]]]
          [] edit = "checksum_renamed" ->
                 [manifest EXCEPT !.checksums =
                     [k \in (DOMAIN manifest.checksums \ {first}) \cup {<<120>> \o first} |->
                         IF k \in DOMAIN manifest.checksums
                         THEN manifest.checksums[k] ELSE manifest.checksums[first]]]

\* the manifest is as Manifest::sign left it
Intact(manifest) ==
    /\ manifest.public_key = Some(Fingerprint(PublicKeyOf(manifest.signing_key[1])))
    /\ manifest.signature = CreateSignature(manifest).signature

\* the signature file is edited after signing, before the verifier reads it
TamperManifest(edit) ==
    /\ ref # None /\ signResult = Ok /\ ver = None /\ tamper = None
    /\ ref[1].checksums # <<>>
    /\ Intact(ref[1])
    /\ ref' = Some(Edited(ref[1], edit))
    /\ signedPaths' = {}
    /\ tamper' = Some(edit)
    /\ UNCHANGED <<files, signResult, ver, result, edits, cli, cmds>>

\* signing, edits of the files and of the signature file, verifying
TamperNext ==
    \/ \E b \in BasePaths, sk \in SignerKeys : NewSigningManifest(b, sk)
    \/ \E paths \in PathLists : RefSign(paths)
    \/ \E p \in EditablePaths, c \in Contents : WriteFile(p, c)
    \/ \E e \in ManifestEdits : TamperManifest(e)
    \/ \E b \in BasePaths, sk \in KeyPairs : NewVerifyingManifest(b, PublicKeyOf(sk))
    \/ \E paths \in PathLists : RunVerify(paths)

TamperSpec == Init /\ [][TamperNext]_vars

\* the tensors of the models that are inspected: every data type with every
\* shape, and for models of several tensors the sub-byte types and a byte
\* type with one and three elements
MaxTensors == 2
Shapes == {<<>>, <<1>>, <<3>>, <<2, 4>>, <<0, 5>>}
TensorNames == {<<119>>, <<98>>}
OnnxTypes == 0..Len(OnnxBits)
GgufTypes == DOMAIN GgufBits
SeveralTypes(handler) ==
    IF handler = "ONNX" THEN {2, 21, 22} ELSE {"Q8_0", "Q4_0", "Q5_1", "Q2K"}
RECURSIVE ListsOf(_, _)
ListsOf(tensors, n) ==
    IF n = 0 THEN {<<>>}
    ELSE ListsOf(tensors, n - 1)
         \cup {Append(l, t) : l \in ListsOf(tensors, n - 1), t \in tensors}
TensorLists(handler) ==
    {<<Tensor(<<119>>, d, s)>> :
        d \in (IF handler = "ONNX" THEN OnnxTypes ELSE GgufTypes), s \in Shapes}
    \cup ListsOf({Tensor(n, d, s) : n \in TensorNames, d \in SeveralTypes(handler),
                                    s \in {<<1>>, <<3>>}},
                 MaxTensors)

\* inspections of ONNX and GGUF models
InspectNext ==
    \E h \in {"ONNX", "GGUF"}, d \in DetailLevels, f \in {None, Some(<<119>>)} :
        \E tensors \in TensorLists(h) : InspectModel(h, tensors, d, f)

InspectSpec == Init /\ [][InspectNext]_vars

\* the answers of the environment, and the files given to the inspector: two
\* files, a spelling with "..", a name that is not UTF-8, a missing file
Environments ==
    {Environment(d, i, b, s, o, e) :
        d \in BOOLEAN, i \in BOOLEAN, b \in BOOLEAN, s \in BOOLEAN,
        o \in {"inspection", "garbage"}, e \in {"", "warning"}}
SandboxFiles == {FileM, FileZ, SpellM, FileFF, FileN}

\* runs of the docker inspector
SandboxNext ==
    \E env \in Environments, p \in SandboxFiles, a \in {<<>>, <<NameFE, NameN>>},
       d \in DetailLevels, f \in {None, Some(<<119>>)} :
        SandboxInspect(env, p, a, d, f)

SandboxSpec == Init /\ [][SandboxNext]_vars

\* the commands and the dispatcher, each on the initial file system
CliNext ==
    \/ \E f \in Formats, p \in DispatchPaths, s \in Scopes : HandlerQuery(f, p, s)
    \/ \E f \in Formats, p \in DispatchPaths : CliInspect(f, p)
    \/ \E h \in HandlerTypes, p \in HandlerPaths : ListPaths(h, p)
    \/ \E p \in CliFilePaths, f \in Formats, k \in KeyPaths, o \in Outputs :
          CliSign(p, f, k, o)
    \/ \E p \in CliFilePaths, f \in Formats, k \in VerifyKeyPaths, s \in Outputs :
          CliVerify(p, f, k, s)

CliSpec == Init /\ [][CliNext]_vars

\* ------------------------------------------------------ state descriptions
ChecksumErrors == {"MissingChecksum", "InvalidChecksum"}
HashingFailures == {"IoError", "Panic"}

\* verify ran
Verified == result # Pending
\* verify ran and hashed every path it was given
VerifiedHashed == Verified /\ result.kind \notin HashingFailures
\* the reference manifest carries a signature made by sign or create_signature
RefSigned == ref # None /\ signResult = Ok
\* the verifier holds the public half of the key the reference was made with
MatchingKey ==
    ref # None /\ ver # None
    /\ ver[1].verifying_key = Some(PublicKeyOf(ref[1].signing_key[1]))
\* the key a file of the initial file system has under the base /b
KeyOf(file) == ChecksumKey(file, <<NameB>>)
\* what changed since Init: one file has other content / a file moved to /b/n
Overwritten == {f \in DOMAIN InitFiles \cap DOMAIN files : files[f] # InitFiles[f]}
Moved == DOMAIN InitFiles \ DOMAIN files

\* ------------------------------------------------------------------ claims
\* C1. Round trip: a manifest signed over some files verifies, under the
\* public half of the signing key, when the verifier hashes the same files
\* with the same content (both manifests then hold the same checksums).
C1_RoundTrip ==
    (VerifiedHashed /\ RefSigned /\ MatchingKey
        /\ ver[1].checksums = ref[1].checksums)
    => result = Ok

C1_Witness ==
    /\ Verified /\ RefSigned /\ MatchingKey
    /\ DOMAIN ref[1].checksums = {KeyOf(FileM)}
    /\ ver[1].checksums = ref[1].checksums
    /\ edits = 0
    /\ result = Ok

\* C2. Tamper detection, as claimed: when the content of one signed file
\* changed after signing and the same files are verified with the matching
\* key, verify fails with the error of the checksum comparison.
C2_TamperIsChecksumError ==
    (VerifiedHashed /\ RefSigned /\ MatchingKey
        /\ Moved = {} /\ Cardinality(Overwritten) = 1
        /\ DOMAIN ver[1].checksums = DOMAIN ref[1].checksums
        /\ \A f \in Overwritten :
              /\ KeyOf(f) \in DOMAIN ref[1].checksums
              /\ ref[1].checksums[KeyOf(f)] = Digests[InitFiles[f]]
              /\ ver[1].checksums[KeyOf(f)] = Digests[files[f]]
              /\ \A k \in DOMAIN ref[1].checksums \ {KeyOf(f)} :
                    ver[1].checksums[k] = ref[1].checksums[k])
    => result.kind \in ChecksumErrors

\* C3. Wrong key: with the public key of another key pair verify returns
\* "public key fingerprint mismatch" whenever it gets past hashing, whatever
\* the checksums are; it never reports a checksum or signature error, nor Ok.
C3_WrongKey ==
    (Verified /\ ~MatchingKey)
    => result.kind \in {"FingerprintMismatch"} \cup HashingFailures

C3_Witness ==
    /\ VerifiedHashed /\ RefSigned /\ ~MatchingKey
    /\ Overwritten # {}
    /\ Range(ver[1].checksums) # Range(ref[1].checksums)
    /\ result.kind = "FingerprintMismatch"

\* the checksums of a manifest under other keys: every key gets a prefix
Rekeyed(map) == [k \in {<<120>> \o j : j \in DOMAIN map} |-> map[Tail(k)]]

\* C4. Rename tolerance: a signed file was renamed, the verifier hashes the
\* signed files under their present names with the matching key: verify
\* succeeds. And the checksum comparison does not read the keys: it gives the
\* same verdict when every key on both sides is replaced.
C4_RenameTolerance ==
    /\ (VerifiedHashed /\ RefSigned /\ MatchingKey
          /\ Overwritten = {} /\ Cardinality(Moved) = 1
          /\ \A f \in Moved :
                /\ KeyOf(f) \in DOMAIN ref[1].checksums
                /\ ref[1].checksums[KeyOf(f)] = Digests[InitFiles[f]]
                /\ DOMAIN ver[1].checksums =
                      (DOMAIN ref[1].checksums \ {KeyOf(f)}) \cup {KeyOf(FileN)}
                /\ FileN \in DOMAIN files /\ files[FileN] = InitFiles[f]
                /\ ver[1].checksums[KeyOf(FileN)] = Digests[files[FileN]]
                /\ \A k \in DOMAIN ref[1].checksums \ {KeyOf(f)} :
                      ver[1].checksums[k] = ref[1].checksums[k])
       => result = Ok
    /\ VerifiedHashed
       => VerifyChecksums([ver[1] EXCEPT !.checksums = Rekeyed(@)],
                          ref[1].checksums).kind
            = VerifyChecksums(ver[1], ref[1].checksums).kind

C4_Witness ==
    /\ VerifiedHashed /\ RefSigned /\ MatchingKey
    /\ Moved = {FileM} /\ FileN \in DOMAIN files
    /\ DOMAIN ref[1].checksums = {KeyOf(FileM), KeyOf(FileT)}
    /\ DOMAIN ver[1].checksums = {KeyOf(FileN), KeyOf(FileT)}
    /\ result = Ok

\* C5. Extra file, as claimed: the verifier holds every signed checksum under
\* its key and at least one more; verify fails with the error of the checksum
\* comparison.
C5_ExtraIsChecksumError ==
    (VerifiedHashed /\ RefSigned /\ MatchingKey
        /\ DOMAIN ref[1].checksums # {}
        /\ DOMAIN ref[1].checksums \subseteq DOMAIN ver[1].checksums
        /\ DOMAIN ref[1].checksums # DOMAIN ver[1].checksums
        /\ \A k \in DOMAIN ref[1].checksums :
              ver[1].checksums[k] = ref[1].checksums[k])
    => result.kind \in ChecksumErrors

\* C6. A reference manifest whose signature is the empty string never
\* verifies.
C6_NoSignature ==
    (Verified /\ ref[1].signature = <<>>) => result # Ok

C6_Witness ==
    /\ Verified /\ MatchingKey
    /\ ref[1].signature = <<>>
    /\ ref[1].checksums # <<>>
    /\ ver[1].checksums = ref[1].checksums
    /\ result.kind = "SignatureError"

SignReturnedOk == signResult = Pending /\ signResult' = Ok /\ signedPaths' # {}

\* every order a set of paths can be listed in
Orderings(S) ==
    {s \in [1..Cardinality(S) -> S] : \A i, j \in DOMAIN s : i # j => s[i] # s[j]}

\* the checksums of a manifest with the values moved among the keys by pi
Shuffled(map, pi) == [k \in DOMAIN map |-> map[pi[k]]]

\* C9. Payload order invariance: whenever sign returns, every permutation of
\* its path list gives, from the same manifest over the same files, the same
\* signature; and the payload of the signed manifest is the same when its
\* values are moved among its keys or stored under other keys.
C9_OrderInvariance ==
    [][SignReturnedOk =>
        /\ \A s \in Orderings(signedPaths') :
              /\ Sign(ref[1], s).outcome = Ok
              /\ Sign(ref[1], s).manifest.signature = ref'[1].signature
        /\ \A pi \in Permutations(DOMAIN ref'[1].checksums) :
              DataToSign([checksums |-> Shuffled(ref'[1].checksums, pi)])
                = DataToSign(ref'[1])
        /\ DataToSign([checksums |-> Rekeyed(ref'[1].checksums)])
              = DataToSign(ref'[1])
    ]_vars

C9_Witness ==
    /\ RefSigned /\ ver = None
    /\ signedPaths = {FileM, FileT, FileFF}
    /\ DOMAIN ref[1].checksums = {KeyOf(FileM), KeyOf(FileT), KeyOf(FileFF)}
    /\ ref[1].checksums[KeyOf(FileM)] # ref[1].checksums[KeyOf(FileFF)]
    /\ ref[1].signature # <<>>

\* file names that are valid UTF-8 (here: ASCII)
IsUtf8(path) == \A i \in 1..Len(path) : \A j \in 1..Len(path[i]) : path[i][j] < 128

\* C10, as claimed: after sign over some files with base /b, every signed file
\* has an entry; the key of a file with a UTF-8 name is its canonical path
\* relative to the base, components joined by '/'; different files have
\* different keys (there are at least as many keys as files).
C10_KeysAreRelativePaths ==
    (RefSigned /\ signedPaths # {})
    => LET signed == {Canonicalize(p, files) : p \in signedPaths}
       IN  /\ \A c \in signed :
                 IsUtf8(c) => Join(StripPrefix(c, ref[1].base_path), <<47>>)
                                 \in DOMAIN ref[1].checksums
           /\ Cardinality(DOMAIN ref[1].checksums) >= Cardinality(signed)

\* the canonical forms of some paths; whether all are files that exist; those
\* that are not under a base path; the checksum keys of those that are
Canonical(paths) == {Canonicalize(p, files) : p \in paths} \ {NoPath}
Readable(paths) == \A p \in paths : Canonicalize(p, files) \in DOMAIN files
Escaping(paths, base_path) ==
    {c \in Canonical(paths) : StripPrefix(c, base_path) = NoPath}
InsideKeys(paths, base_path) ==
    {ChecksumKey(c, base_path) : c \in Canonical(paths) \ Escaping(paths, base_path)}

\* C7. Base-path containment. In every step in which Manifest::sign returns
\* after it was given a path whose canonical form is outside the base path: it
\* failed while hashing (with the panic, when every path is a file that can be
\* read), the manifest has no signature, and the only entries added are those
\* of paths under the base. The same holds of Manifest::verify for every path
\* list a new verifying manifest can be handed. And in every run of the sign
\* command whose resolved paths hold one outside the base path (a shard of an
\* index, the external data of an ONNX model, the target of a symbolic link):
\* the run fails the same way, no file is written and the file system is as
\* before.
C7_BasePathContainment ==
    [][/\ (signResult = Pending /\ signedPaths' # {}
              /\ Escaping(signedPaths', ref[1].base_path) # {})
          => /\ signResult'.kind \in HashingFailures
             /\ Readable(signedPaths')
                   => signResult'.kind = "Panic"
             /\ ref'[1].signature = <<>>
             /\ DOMAIN ref'[1].checksums \subseteq
                   DOMAIN ref[1].checksums
                      \cup InsideKeys(signedPaths', ref[1].base_path)
       /\ (ver = None /\ ver' # None)
          => \A paths \in PathLists :
                Escaping(Range(paths), ver'[1].base_path) # {}
                => LET done == Verify(ver'[1], paths, ref[1])
                   IN  /\ done.outcome.kind \in HashingFailures
                       /\ Readable(Range(paths))
                             => done.outcome.kind = "Panic"
                       /\ DOMAIN done.manifest.checksums \subseteq
                             InsideKeys(Range(paths), ver'[1].base_path)
       /\ (cli = NoRun /\ cli'.manifest # None
              /\ Escaping(Range(cli'.paths), cli'.manifest[1].base_path) # {})
          => /\ cli'.outcome.kind \in HashingFailures
             /\ Readable(Range(cli'.paths))
                   => cli'.outcome.kind = "Panic"
             /\ cli'.manifest[1].signature = <<>>
             /\ DOMAIN cli'.manifest[1].checksums \subseteq
                   InsideKeys(Range(cli'.paths), cli'.manifest[1].base_path)
             /\ cli'.written = None
             /\ files' = files
    ]_vars

\* the sign command ran on the index /e/i.safetensors.index.json, whose shard
\* is /w/a.safetensors: it panicked after hashing the index, and wrote nothing
C7_Witness ==
    /\ cli.outcome.kind = "Panic"
    /\ cli.paths = <<EscapeI, ModelA>>
    /\ cli.manifest # None
    /\ cli.manifest[1].base_path = <<NameE>>
    /\ DOMAIN cli.manifest[1].checksums = {NameI}
    /\ cli.manifest[1].signature = <<>>
    /\ cli.written = None
    /\ files = InitFiles

\* ------------------------------------------------------------ dispatcher

\* the dispatcher or the inspect command was called with a format override
Overridden == dispatch # NoQuery /\ dispatch.format # None

\* C11: when a format override is given, handler_for and the inspect command
\* use the handler of the overriding format whatever the path is, in both
\* scopes, and the override Unknown ends in "unsupported file format"
C11_OverrideWins ==
    Overridden =>
        dispatch.handler = IF dispatch.format[1] \in HandlerTypes
                           THEN dispatch.format ELSE None

\* the order of the handlers vector
HandlerOrder == <<"SafeTensors", "ONNX", "GGUF", "PyTorch">>

\* handler_for was called without a format override
Detected == dispatch.caller = "handler_for" /\ dispatch.format = None

\* the i-th handler is the first one that claims the path of the call
FirstClaiming(i) ==
    /\ IsHandlerFor(HandlerOrder[i], dispatch.file_path, dispatch.scope)
    /\ \A j \in 1..(i - 1) :
          ~IsHandlerFor(HandlerOrder[j], dispatch.file_path, dispatch.scope)

\* C12: without a format override handler_for returns the first handler, in
\* the order SafeTensors, ONNX, GGUF, PyTorch, that claims the path for the
\* scope (each of a.safetensors, g.onnx, m.gguf, m.pt gets its own handler),
\* and an error when no handler claims the path
C12_FirstClaimingHandler ==
    Detected =>
        /\ \A i \in 1..Len(HandlerOrder) :
              FirstClaiming(i) => dispatch.handler = Some(HandlerOrder[i])
        /\ (\A i \in 1..Len(HandlerOrder) : ~FirstClaiming(i))
              => dispatch.handler = None
        /\ dispatch.file_path = ModelA => dispatch.handler = Some("SafeTensors")
        /\ dispatch.file_path = ModelG => dispatch.handler = Some("ONNX")
        /\ dispatch.file_path = PathGguf => dispatch.handler = Some("GGUF")
        /\ dispatch.file_path = PathPt => dispatch.handler = Some("PyTorch")
        /\ dispatch.file_path = ModelR => dispatch.handler = None

C12_Witness ==
    /\ Detected
    /\ dispatch.file_path = PathGguf
    /\ dispatch.handler = Some("GGUF")

\* the last component of the path of the call, as written and in lower case
QueriedName == dispatch.file_path[Len(dispatch.file_path)]
QueriedLower == ToAsciiLowercase(QueriedName)

\* the name is a non-empty stem followed by ".safetensors" in any case
HasSafetensorsExtension ==
    /\ EndsWith(QueriedLower, <<46>> \o ExtSafetensors)
    /\ Len(QueriedName) > Len(ExtSafetensors) + 1

\* C13: the SafeTensors handler claims a path whose extension is safetensors
\* in any letter case in both scopes, a name ending in .safetensors.index.json
\* in the Signing scope only, and no other path
C13_SafeTensorsClaims ==
    Detected =>
        (dispatch.handler = Some("SafeTensors")
            <=> \/ HasSafetensorsExtension
                \/ /\ dispatch.scope = "Signing"
                   /\ EndsWith(QueriedName, IndexSuffix))

C13_Witness ==
    /\ Detected
    /\ dispatch.file_path = ModelI
    /\ dispatch.scope = "Inspection"
    /\ dispatch.handler = None

\* ------------------------------------------------------------ path resolver

\* the sign command ran on a directory and its resolver returned paths
SignedDirectory ==
    /\ cli # NoRun
    /\ Canonicalize(signArgs.file_path, InitFiles) \in Dirs
    /\ cli.paths # <<>>

\* the regular files beneath the root of the sign command, before it ran
Beneath ==
    {q \in DOMAIN InitFiles :
        StripPrefix(q, Canonicalize(signArgs.file_path, InitFiles)) # NoPath}

\* the files beneath the root that no handler claims (for the Signing scope)
Unclaimed == {q \in Beneath : HandlerFor(None, q, "Signing") = None}

\* the sign command ran on /d without a format override and succeeded
SignedD ==
    /\ cli.outcome = Ok
    /\ signArgs.file_path = <<NameD>>
    /\ signArgs.format = None

FellBack ==
    /\ cli # NoRun
    /\ LoadKey(signArgs.key_path) # None
    /\ Canonicalize(signArgs.file_path, InitFiles) \in DOMAIN InitFiles
    /\ HandlerFor(signArgs.format, signArgs.file_path, "Signing") = None

\* the resolver returned the canonical absolute path of the root and no other
FallbackPath == cli.paths = <<Canonicalize(signArgs.file_path, InitFiles)>>

\* C16: when the root is a regular file and the dispatch fails, the resolver
\* returns exactly the canonical absolute path of the root, also for a
\* relative root, and the command prints a warning
C16_SingleFileFallback ==
    FellBack =>
        /\ FallbackPath
        /\ \E i \in DOMAIN printed : printed[i].text = "Warning"

\* the root of a command has no regular file: it does not exist, or it is a
\* directory with no regular file beneath it
NoRegularFile(root) ==
    \/ Canonicalize(root, files) = NoPath
    \/ /\ Canonicalize(root, files) \in Dirs
       /\ \A q \in DOMAIN files : StripPrefix(q, Canonicalize(root, files)) = NoPath

\* the lines "Signing .." and "Hashing .." of the loops that hash the files
HashingLines == {i \in DOMAIN printed : printed[i].text \in {"Signing", "Hashing"}}

\* the verify command ran alone and got its signature and its key loaded
VerifyLoaded ==
    /\ verifyRun # NoRun
    /\ SignaturePath(verifyArgs.file_path, verifyArgs.output) # NoPath
    /\ FromSignaturePath(verifyArgs.file_path,
                         SignaturePath(verifyArgs.file_path, verifyArgs.output)).outcome = Ok
    /\ FromPublicKeyPath(verifyArgs.file_path, verifyArgs.key_path) # None

\* C17: the resolver returns no empty list: on a root that does not exist or
\* a directory without a regular file beneath it it fails with "no compatible
\* paths found", and sign and verify then fail and hash no file
C17_NoEmptyList ==
    /\ (cli # NoRun /\ cli.manifest # None) => cli.paths # <<>>
    /\ (cli # NoRun /\ LoadKey(signArgs.key_path) # None
           /\ NoRegularFile(signArgs.file_path))
          => /\ cli.outcome.kind = "NoCompatiblePaths"
             /\ cli.written = None
             /\ HashingLines = {}
    /\ (verifyRun # NoRun /\ NoRegularFile(verifyArgs.file_path))
          => /\ verifyRun.outcome # Ok
             /\ verifyRun.manifest = None
             /\ VerifyLoaded => verifyRun.outcome.kind = "NoCompatiblePaths"
             /\ cli = NoRun => HashingLines = {}

C17_Witness ==
    /\ VerifyLoaded
    /\ verifyArgs.file_path = <<NameX>>
    /\ verifyRun.outcome.kind = "NoCompatiblePaths"
    /\ cli # NoRun /\ cli.outcome = Ok
    /\ \A i \in DOMAIN printed : printed[i].text # "Hashing"

\* paths_to_sign of the SafeTensors handler returned a list
ListedSafeTensors ==
    /\ dispatch.caller = "paths_to_sign"
    /\ dispatch.handler = Some("SafeTensors")
    /\ dispatch.listed[1].outcome = Ok

\* where a shard name of the index points: the name itself when it is
\* absolute, else the name in the directory of the index
ShardPath(index_path, name) ==
    IF name[1] = 47 THEN Components(name, <<>>)
    ELSE Parent(index_path) \o Components(name, <<>>)

\* C18: for an index document paths_to_sign of the SafeTensors handler returns
\* the index path and then the path of each distinct shard name of weight_map
\* exactly once (relative names in the directory of the index, absolute names
\* as they are); for any other path it returns the path alone
C18_IndexAndShardsOnce ==
    ListedSafeTensors =>
        LET file_path == dispatch.file_path
            paths     == dispatch.listed[1].paths
            names     == Range(WeightMaps[InitFiles[Canonicalize(file_path, InitFiles)]])
        IN  IF IsSafetensorsIndex(file_path)
            THEN /\ paths[1] = file_path
                 /\ Len(paths) = 1 + Cardinality(names)
                 /\ \A n \in names :
                       Cardinality({i \in 2..Len(paths) :
                                      paths[i] = ShardPath(file_path, n)}) = 1
            ELSE paths = <<file_path>>

C18_Witness ==
    /\ ListedSafeTensors
    /\ dispatch.file_path = ModelJ
    /\ Range(dispatch.listed[1].paths) = {ModelJ, ModelA, ModelG}
    /\ Len(dispatch.listed[1].paths) = 3
    /\ Len(WeightMaps[IndexShards]) = 3

\* a path as the operating system reads it: a relative one starts at the
\* current directory
Absolute(path) ==
    IF path # <<>> /\ path[1] = Rel THEN Cwd \o Tail(path) ELSE path

\* the directory a file named on the command line lies in
DirectoryOf(path) == Canonicalize(Parent(Absolute(path)), InitFiles)

\* the sign command ran, with a key it could load and no --output, on a single
\* regular file (not a link) that the resolver answered with the file alone
SignedSingleFile ==
    /\ cli # NoRun
    /\ LoadKey(signArgs.key_path) # None
    /\ signArgs.output = None
    /\ Canonicalize(signArgs.file_path, InitFiles) \in DOMAIN InitFiles
    /\ Canonicalize(signArgs.file_path, InitFiles)
          = Append(DirectoryOf(signArgs.file_path), FileName(signArgs.file_path))
    /\ cli.paths = <<Canonicalize(signArgs.file_path, InitFiles)>>

\* the verify command that follows: same file and format, no --signature, the
\* public key of the signer
VerifiedAfterwards ==
    /\ verifyRun # NoRun
    /\ verifyArgs.file_path = signArgs.file_path
    /\ verifyArgs.output = None
    /\ verifyArgs.key_path \in DOMAIN PublicKeyFiles

\* C19: sign of a single file foo.ext without --output writes the manifest to
\* foo.signature in the directory of the file, whether that file existed or
\* not and whether the path is absolute or relative, with the one checksum
\* keyed foo.ext, and the verify that follows without --signature succeeds;
\* sign of a directory writes <dir>/tensor-man.signature
C19_DefaultSignatureName ==
    /\ SignedSingleFile =>
          /\ cli.outcome = Ok
          /\ cli.written = Some(WithExtension(Canonicalize(signArgs.file_path, InitFiles),
                                              ExtSignature))
          /\ DOMAIN cli.manifest[1].checksums = {FileName(signArgs.file_path)}
          /\ VerifiedAfterwards => verifyRun.outcome = Ok
    /\ (SignedDirectory /\ signArgs.output = None /\ cli.outcome = Ok) =>
          cli.written = Some(Append(Canonicalize(signArgs.file_path, InitFiles),
                                    NameSignature))

\* the manifest of the sign command is complete: every resolved path was
\* hashed and the signature is there
CompleteManifest ==
    /\ cli.manifest # None
    /\ cli.paths # <<>>
    /\ Len(Attempted(cli.manifest[1], cli.paths)) = Len(cli.paths)
    /\ \A i \in DOMAIN cli.paths :
          ComputeChecksum(cli.manifest[1], cli.paths[i]).outcome = Ok
    /\ cli.manifest[1].checksums # <<>>
    /\ cli.manifest[1].signature # <<>>

\* the last run of the sign command that succeeded
LastSigned == IF resign # NoRun /\ resign.outcome = Ok THEN resign ELSE cli

\* the files are those before the commands but for the one file the sign
\* command wrote, which holds the JSON text of the manifest of its last run
\* that succeeded
OnlyManifestWritten ==
    /\ cli.written # None
    /\ DOMAIN files = DOMAIN InitFiles \cup {cli.written[1]}
    /\ \A q \in DOMAIN InitFiles \ {cli.written[1]} : files[q] = InitFiles[q]
    /\ files[cli.written[1]] = Utf8Encode(ToJson(LastSigned.manifest[1]))
    /\ resign.written \in {None, cli.written}
    /\ resign.outcome # Ok => resign.written = None

SignedAgain ==
    /\ resign # NoRun
    /\ SignedDirectory
    /\ signArgs.output = None
    /\ cli.written = Some(Append(Canonicalize(signArgs.file_path, InitFiles),
                                 NameSignature))

\* C21: a sign command on a directory whose tree holds tensor-man.signature
\* from an earlier signing leaves that file out of the resolved paths: the
\* new manifest has no checksum for it, and the checksums of the second
\* signing of the unchanged directory are those of the first
C21_SignatureFileExcluded ==
    SignedAgain =>
        /\ resign.outcome = Ok
        /\ cli.written[1] \notin Range(resign.paths)
        /\ NameSignature \notin DOMAIN resign.manifest[1].checksums
        /\ resign.manifest[1].checksums = cli.manifest[1].checksums

\* verify got past hashing, the fingerprints and the checksums: its outcome
\* is that of the signature check
ReachedSignatureCheck ==
    /\ VerifiedHashed
    /\ result.kind \notin {"FingerprintMismatch"} \cup ChecksumErrors

\* the signature of the reference manifest is a valid signature, under the
\* verifier's public key, over the payload of the checksums of manifest
SignatureOver(manifest) ==
    /\ HexDecode(ref[1].signature) # HexError
    /\ Ed25519Verify(ver[1].verifying_key[1], DataToSign(manifest),
                     HexDecode(ref[1].signature))

\* C22, as claimed: the signature check of verify takes its payload from the
\* checksums of the reference manifest, and a failure of the check is
\* "signature verification failed"
C22_PayloadFromReference ==
    ReachedSignatureCheck =>
        IF SignatureOver(ref[1]) THEN result = Ok
        ELSE result.kind = "SignatureError"

\* C22, amended: the payload is that of the checksums the verifier computed
\* itself; a signature that is not hex fails with the error of hex::decode,
\* any other failure is "signature verification failed"
C22_PayloadFromVerifier ==
    ReachedSignatureCheck =>
        IF HexDecode(ref[1].signature) = HexError THEN result.kind = "HexError"
        ELSE IF SignatureOver(ver[1]) THEN result = Ok
        ELSE result.kind = "SignatureError"

C22_Witness ==
    /\ ReachedSignatureCheck
    /\ DataToSign(ver[1]) # DataToSign(ref[1])
    /\ SignatureOver(ref[1])
    /\ Intact(ref[1])
    /\ result.kind = "SignatureError"

\* the path lists the resolver returned to the sign and verify commands
ResolvedLists ==
    {run.paths : run \in {r \in {cli, resign, verifyRun} : r.paths # <<>>}}

\* a canonical absolute path of a regular file: canonicalize leaves it as it is
CanonicalFile(path) ==
    /\ path \in DOMAIN files
    /\ Canonicalize(path, files) = path

\* C23: every list the path resolver returns, for a single file or a
\* directory, holds canonical absolute paths only and each file at most once,
\* also when a file is named through two spellings
C23_CanonicalOnce ==
    \A paths \in ResolvedLists :
        /\ \A i \in DOMAIN paths : CanonicalFile(paths[i])
        /\ \A i, j \in DOMAIN paths : paths[i] = paths[j] => i = j

FullReport ==
    /\ inspection # NoInspection
    /\ inspection.detail = "Full" /\ inspection.filter = None
    /\ inspection.report[1].outcome = Ok

\* bits(dtype) of the i-th tensor of the inspected model
BitsOf(i) ==
    IF inspection.handler = Some("ONNX") THEN OnnxBits[inspection.model[i].dtype]
    ELSE GgufBits[inspection.model[i].dtype]

\* C25: the size of a tensor descriptor of the ONNX and GGUF handlers is
\* ceil(bits(dtype) * product(shape) / 8) for every data type and every
\* non-empty shape, and 0 for an empty shape
C25_SizeRoundedUp ==
    FullReport =>
        \A i \in DOMAIN inspection.model :
            inspection.report[1].tensors[1][i].size
                = CeilSize(IF inspection.model[i].dims = <<>> THEN 0 ELSE BitsOf(i),
                           inspection.model[i].dims)

\* C30: in a Full inspection without a filter of an ONNX or GGUF model the
\* reported data_size is the sum of the size fields of the tensor
\* descriptors, whatever the tensors are
C30_DataSizeIsSumOfSizes ==
    FullReport =>
        inspection.report[1].data_size
            = SumSeq([i \in DOMAIN inspection.report[1].tensors[1] |->
                         inspection.report[1].tensors[1][i].size])

\* the docker run commands of the run of the inspector
Started ==
    {i \in DOMAIN sandbox.run.commands : sandbox.run.commands[i].words = "docker run"}

\* the words of the commands before the i-th
Before(i) == {sandbox.run.commands[j].words : j \in 1..(i - 1)}

\* C26: every run of the sandboxed inspector starts the container with the
\* model file mounted read-only at a fixed path, without network and with
\* removal after exit, and only after docker was found and the image was
\* found or built; the inspection is returned only when the container exited
\* successfully with empty stderr, and non-empty stderr makes the run fail
C26_SandboxedRun ==
    /\ \A i \in Started :
          LET run == sandbox.run.commands[i]
          IN  /\ {"--rm", "--network=none"} \subseteq run.flags
              /\ run.volumes[1].src = Canonicalize(sandbox.file_path, files)
              /\ run.volumes[1].mode = "ro"
              /\ \A p \in SandboxFiles : run.volumes[1].dst = MountPoint(FileName(p))
              /\ run.image = ImageId(Assets)
              /\ "docker version" \in Before(i) /\ sandbox.env[1].docker
              /\ "docker images" \in Before(i)
              /\ sandbox.env[1].image \/ "docker build" \in Before(i)
    /\ sandbox.run.outcome = Ok =>
          /\ Started # {}
          /\ sandbox.env[1].status /\ sandbox.env[1].stderr = ""
    /\ (sandbox # NoSandbox /\ sandbox.env[1].stderr # "") => sandbox.run.outcome # Ok

\* the sign command succeeded on a directory with no --output, each time it
\* ran, and the verify command followed with the same spelling of the
\* directory, the same format, no --signature and the signer's public key
SignedThenVerified ==
    /\ SignedDirectory
    /\ signArgs.output = None
    /\ cli.outcome = Ok
    /\ resign # NoRun => resign.outcome = Ok
    /\ VerifiedAfterwards
    /\ verifyArgs.format = signArgs.format

\* C27: after sign on a directory with no --output, verify on the unchanged
\* directory with no --signature and the matching public key succeeds,
\* however the directory is spelled and however many times it was signed
\* before; the signature file is never among the files verify hashes
C27_SignThenVerify ==
    SignedThenVerified =>
        /\ verifyRun.outcome = Ok
        /\ cli.written[1] \notin Range(verifyRun.paths)

\* the handlers that claim the path of the call for its scope
Claiming ==
    {h \in HandlerTypes : IsHandlerFor(h, dispatch.file_path, dispatch.scope)}

\* C29: for every path and scope at most one of the four handlers returns
\* true from is_handler_for, so auto-detection returns the one handler that
\* claims the path, whatever the order in which the handlers are tried
C29_ExclusiveOwnership ==
    dispatch.caller = "handler_for" =>
        /\ Cardinality(Claiming) <= 1
        /\ Detected => \A h \in HandlerTypes :
                           dispatch.handler = Some(h) <=> h \in Claiming

C29_Witness ==
    /\ Detected
    /\ dispatch.file_path = PathModelSafetensors
    /\ dispatch.handler = Some("SafeTensors")
    /\ Claiming = {"SafeTensors"}

\* verify returned Ok
Accepted == ref # None /\ ver # None /\ result = Ok

\* the digests of a manifest, sorted, with repetitions
SortedDigests(manifest) == StableSort(MapValues(manifest.checksums), "String")

\* the edits of the signature file that touch its checksums only
ChecksumEdits ==
    {"checksum_dropped", "checksum_changed", "checksum_repeated", "checksum_renamed"}

\* C28, as claimed: when verify returns Ok the signature of the reference is
\* a valid Ed25519 signature, under the supplied public key, over the sorted
\* digests of the files the verifier hashed, and no reference manifest whose
\* checksums or signature were edited after signing is accepted
C28_EditedNeverAccepted ==
    Accepted =>
        /\ SignatureOver(ver[1])
        /\ tamper = None

\* C28, amended: when verify returns Ok the signature of the reference is a
\* valid Ed25519 signature, under the supplied public key, over the sorted
\* digests of the files the verifier hashed: an edited signature is never
\* accepted, and the verifier's files have the digests that were signed, each
\* as many times; of the edits of the signature file only those of its
\* checksums that keep the set of digest values are accepted (a renamed key,
\* a repeated entry, a dropped entry whose digest another key has)
C28_SoundOverOwnDigests ==
    Accepted =>
        /\ SignatureOver(ver[1])
        /\ tamper # None => tamper[1] \in ChecksumEdits
        /\ Range(MapValues(ref[1].checksums)) = Range(MapValues(ver[1].checksums))
        /\ tamper = None => SortedDigests(ver[1]) = SortedDigests(ref[1])

C28_Witness ==
    /\ Accepted
    /\ tamper = Some("checksum_repeated")
    /\ Cardinality(DOMAIN ref[1].checksums) = Cardinality(DOMAIN ver[1].checksums) + 1

====
